---- MODULE Spec2Model ----
(***************************************************************************)
(* Model of the signal pipeline core of mrcrypto-go: the cron-driven       *)
(* Loader (scheduler), the worker pool, the cooldown / duplicate gate of   *)
(* the DatabaseService, the batch validator cascade of the AIService and   *)
(* the signals collection.                                                 *)
(*                                                                         *)
(* Units.  Prices are integers in thousandths (100000 is 100.000).  Time   *)
(* is an integer number of minutes; 0 is Go's zero time.Time, every real   *)
(* instant is >= 1.  Percent comparisons of the code (float64) are stated  *)
(* over the integers by cross-multiplication; every price set used below   *)
(* keeps the float64 result and the exact result on the same side of the   *)
(* threshold.                                                              *)
(***************************************************************************)
EXTENDS Integers, Sequences, FiniteSets, TLC

(***************************************************************************)
(* Bounds of the model.                                                    *)
(***************************************************************************)
MaxTicks == 2
MaxClients == 1
MaxJobs == 3
MaxWorkers == 2
MaxStore == 2
MaxBatch == 2
MaxChecks == 2

(***************************************************************************)
(* Program constants.                                                      *)
(***************************************************************************)
NumModels == 5
CooldownMinutes == 240
JobsCap == 100
ResultsCap == 100
ScoreGate == 70
DefaultScore == 50
ZeroTime == 0
ReversalWindow == 5

Threads == 1..MaxTicks

Abs(x) == IF x < 0 THEN -x ELSE x

SeqMax(a, b) == IF a > b THEN a ELSE b

(***************************************************************************)
(* Signals.  A candidate is what the engine hands to the pool; the fields  *)
(* kept are the ones the scheduler, the gate, the store and the monitor    *)
(* read or write.                                                          *)
(***************************************************************************)
\* symbols are numbered from 1 in watchlist order; 0 is no symbol
NoSignal == [symbol |-> 0]

\* a signal as the engine assembles it, before validation and persistence
NewSignal(sym, type, entry, sl, tp2, confl) ==
  [symbol |-> sym, type |-> type, entry |-> entry,
   sl |-> sl, tp2 |-> tp2,
   confl |-> confl, aiScore |-> 0, aiTier |-> "",
   status |-> "ACTIVE", closeReason |-> "", exitPrice |-> 0,
   createdAt |-> ZeroTime]

(***************************************************************************)
(* State.                                                                  *)
(*   isPolling  Loader.isPolling, a plain bool shared by all callbacks     *)
(*   ticks      number of cron ticks fired so far                          *)
(*   pc, loc    position and local variables of each tick callback; cron   *)
(*              starts every callback in a goroutine of its own            *)
(*   watchlist  the watchlist collection, in cursor order                  *)
(*   nClients   len(AIService.clients)                                     *)
(*   store      the signals collection, in insertion order                 *)
(*   storeUp    FALSE while calls to the store fail (timeout, outage)      *)
(*   sent       messages handed to the notifier, in order                  *)
(*   now        the wall clock                                             *)
(*   pool       the worker pool of one cycle (jobs, results, workers)      *)
(*   gate       the last call of a gate predicate and its answer           *)
(*   val        one call of BatchValidateSignals followed request by       *)
(*              request: position in the model and client loops, the       *)
(*              response, the value returned                               *)
(*   mon        the monitor goroutine: the ACTIVE signals it read, its     *)
(*              position in that list, the price it fetched last, the      *)
(*              number of prices fetched so far, the messages of the       *)
(*              check it has still to send                                 *)
(***************************************************************************)
VARIABLES isPolling, ticks, pc, loc, watchlist, nClients, store, storeUp,
          sent, now, pool, gate, val, mon, shut, eng

vars == <<isPolling, ticks, pc, loc, watchlist, nClients, store, storeUp,
          sent, now, pool, gate, val, mon, shut, eng>>

Types == {"LONG", "SHORT"}

(***************************************************************************)
(* Signal store: the queries and the insert of DatabaseService.            *)
(***************************************************************************)
RECURSIVE MaxCreatedAt(_, _, _)
MaxCreatedAt(st, idxs, acc) ==
  IF idxs = {} THEN acc
  ELSE LET i == CHOOSE j \in idxs : TRUE
       IN  MaxCreatedAt(st, idxs \ {i}, SeqMax(acc, st[i].createdAt))

\* FindOne({symbol}) sorted by created_at descending; readOK = FALSE is a
\* store error, no document is the zero time without error
GetLastSignalTime(st, symbol, readOK) ==
  LET docs == {i \in DOMAIN st : st[i].symbol = symbol}
  IN  IF ~readOK THEN [time |-> ZeroTime, err |-> TRUE]
      ELSE IF docs = {} THEN [time |-> ZeroTime, err |-> FALSE]
      ELSE [time |-> MaxCreatedAt(st, docs, ZeroTime), err |-> FALSE]

\* CheckCooldown with the window closed at exactly 4 hours
CheckCooldown_Inclusive(st, symbol, duration, t, readOK) ==
  LET last == GetLastSignalTime(st, symbol, readOK)
  IN  IF last.err THEN FALSE
      ELSE IF last.time = ZeroTime THEN FALSE
      ELSE IF t - last.time <= duration THEN TRUE
      ELSE FALSE

\* CheckCooldown answering "suppress" when the read fails
CheckCooldown_FailClosed(st, symbol, duration, t, readOK) ==
  LET last == GetLastSignalTime(st, symbol, readOK)
  IN  IF last.err THEN TRUE
      ELSE IF last.time = ZeroTime THEN FALSE
      ELSE IF t - last.time < duration THEN TRUE
      ELSE FALSE

\* TRUE = cooldown active, the candidate is suppressed
CheckCooldown(st, symbol, duration, t, readOK) ==
  LET last == GetLastSignalTime(st, symbol, readOK)
  IN  IF last.err THEN FALSE
      ELSE IF last.time = ZeroTime THEN FALSE
      ELSE IF t - last.time < duration THEN TRUE
      ELSE FALSE

\* the threshold comparison with >= in place of >
ScalingInAllowed_Inclusive(existingEntry, newEntry) ==
  Abs(existingEntry - newEntry) * 1000 >= 15 * existingEntry

\* percentDiff > 1.5 with percentDiff = |existing - new| / existing * 100
ScalingInAllowed(existingEntry, newEntry) ==
  Abs(existingEntry - newEntry) * 1000 > 15 * existingEntry

\* TRUE = duplicate, the candidate is suppressed
CheckDuplicateActiveSignal(st, symbol, type, newEntryPrice, readOK) ==
  LET docs == {i \in DOMAIN st : /\ st[i].symbol = symbol
                                 /\ st[i].type = type
                                 /\ st[i].status = "ACTIVE"}
  IN  IF ~readOK THEN FALSE
      ELSE IF docs = {} THEN FALSE
      ELSE LET latest == CHOOSE i \in docs :
                           \A j \in docs : st[i].createdAt >= st[j].createdAt
           IN  IF ScalingInAllowed(st[latest].entry, newEntryPrice)
               THEN FALSE ELSE TRUE

\* a save that replaces the stored signal of the symbol, when there is one
SaveSignal_Upsert(st, signal, t) ==
  LET same == {i \in DOMAIN st : st[i].symbol = signal.symbol}
  IN  IF same = {} THEN Append(st, [signal EXCEPT !.createdAt = t])
      ELSE [st EXCEPT ![CHOOSE i \in same : \A j \in same : i <= j] =
                        [signal EXCEPT !.createdAt = t]]

\* InsertOne after stamping created_at = time.Now()
SaveSignal(st, signal, t) == Append(st, [signal EXCEPT !.createdAt = t])

(***************************************************************************)
(* Worker pool, seen from one job: what EvaluateSymbol can return and what *)
(* the worker publishes for it; what Wait() collects.                      *)
(***************************************************************************)
QuotePrices == {0, 106000}

\* the candidates the engine can produce for a symbol in the model
Candidates(symbol) ==
  {NewSignal(symbol, "LONG", 100000, 98000, 106000, 71),
   NewSignal(symbol, "LONG", 100000, 98000, 106000, 70)}

\* outcomes of strategy.EvaluateSymbol(symbol): an error, a panic, or
\* (signal or nil, last close)
EvalOutcomes(symbol) ==
  {[kind |-> "err", signal |-> NoSignal, price |-> 0],
   [kind |-> "panic", signal |-> NoSignal, price |-> 0]}
  \cup {[kind |-> "ok", signal |-> NoSignal, price |-> p] : p \in QuotePrices}
  \cup {[kind |-> "ok", signal |-> c, price |-> c.entry] : c \in Candidates(symbol)}

\* the job closure of worker(): an error returns before the send, a panic
\* unwinds to the deferred RecoverAndLog, everything else is published
JobPublishes(out) == out.kind = "ok"

ScanResultOf(symbol, out) ==
  [signal |-> out.signal, symbol |-> symbol, price |-> out.price]

\* Wait(): the collection loop over the closed results channel
RECURSIVE CollectSignals(_)
CollectSignals(results) ==
  IF results = <<>> THEN <<>>
  ELSE IF Head(results).signal # NoSignal
       THEN <<Head(results).signal>> \o CollectSignals(Tail(results))
       ELSE CollectSignals(Tail(results))

\* a collection loop that keeps a price only when the result has a signal
CollectPrices_SignalsOnly(results) ==
  LET priced == {i \in DOMAIN results :
                   results[i].price > 0 /\ results[i].signal # NoSignal}
      syms == {results[i].symbol : i \in priced}
  IN  [sy \in syms |->
         LET last == CHOOSE i \in priced :
                       /\ results[i].symbol = sy
                       /\ \A j \in priced : results[j].symbol = sy => j <= i
         IN  results[last].price]

CollectPrices(results) ==
  LET priced == {i \in DOMAIN results : results[i].price > 0}
      syms == {results[i].symbol : i \in priced}
  IN  [sy \in syms |->
         LET last == CHOOSE i \in priced :
                       /\ results[i].symbol = sy
                       /\ \A j \in priced : results[j].symbol = sy => j <= i
         IN  results[last].price]

(***************************************************************************)
(* Validator adapter: AIService.BatchValidateSignals.                      *)
(***************************************************************************)
DefaultVerdict ==
  [score |-> DefaultScore, confidence |-> 0, tier |-> "STANDARD",
   reason |-> "AI parse error"]

ZeroVerdict == [score |-> 0, confidence |-> 0, tier |-> "", reason |-> ""]

\* strings.ToUpper on the tier strings the model feeds
ToUpper(s) ==
  CASE s = "premium" -> "PREMIUM"
    [] s = "standard" -> "STANDARD"
    [] s = "reject" -> "REJECT"
    [] OTHER -> s

\* tier auto-correction from the score when missing or unknown
TierOf(tier, score) ==
  LET up == ToUpper(tier)
  IN  IF up # "PREMIUM" /\ up # "STANDARD" /\ up # "REJECT"
      THEN IF score >= 90 THEN "PREMIUM"
           ELSE IF score >= ScoreGate THEN "STANDARD"
           ELSE "REJECT"
      ELSE up

\* conversion of the parsed array into len(signals) results, by position
ConvertResults(results, n) ==
  [i \in 1..n |->
     IF i <= Len(results)
     THEN [score |-> results[i].score, confidence |-> results[i].confidence,
           tier |-> TierOf(results[i].tier, results[i].score),
           reason |-> results[i].reason]
     ELSE ZeroVerdict]

\* defaults for the first candidate only
DefaultResults_FirstOnly(n) ==
  [i \in 1..n |-> IF i = 1 THEN DefaultVerdict ELSE ZeroVerdict]

DefaultResults(n) == [i \in 1..n |-> DefaultVerdict]

\* entries a parsed response can hold
ResponseEntries ==
  {[signal |-> 1, score |-> sc, confidence |-> 80, tier |-> ti, reason |-> "r"] :
     sc \in {70, 71}, ti \in {"STANDARD"}}

Responses(n) ==
  UNION {[1..k -> ResponseEntries] : k \in (IF n = 0 THEN {0} ELSE {n - 1, n})}

\* the error classes of a failed GenerateContent call: "rotate" carries one
\* of the markers 429 / quota / expired / API_KEY_INVALID / INVALID_ARGUMENT
CallFailures == {"rotate", "fatal"}

\* what BatchValidateSignals returns after a call that succeeded: the
\* converted response, or the defaults when the response does not parse
CallReturns(n) ==
  {[err |-> FALSE, results |-> ConvertResults(resp, n)] : resp \in Responses(n)}
  \cup {[err |-> FALSE, results |-> DefaultResults(n)]}

\* a cascade that abandons the model on every failure
NextCall_NoRotation(mi, ci, outcome, clients) == [mi |-> mi + 1, ci |-> 1]

\* position of the next call after a failed one; mi > NumModels = both
\* loops are exhausted
NextCall(mi, ci, outcome, clients) ==
  IF outcome = "rotate" /\ ci < clients THEN [mi |-> mi, ci |-> ci + 1]
  ELSE [mi |-> mi + 1, ci |-> 1]

\* the model and client loops from the call at (mi, ci) on: everything the
\* function can return, over every outcome of every GenerateContent call
RECURSIVE ValidateFrom(_, _, _, _)
ValidateFrom(mi, ci, clients, returns) ==
  IF mi > NumModels
  THEN {[err |-> TRUE, results |-> <<>>]}
  ELSE returns \cup
       UNION {ValidateFrom(nx.mi, nx.ci, clients, returns) :
                nx \in {NextCall(mi, ci, failure, clients) :
                          failure \in CallFailures}}

\* BatchValidateSignals(signals) with n = len(signals)
BatchValidateSignals(n, clients) ==
  IF clients = 0 THEN {[err |-> TRUE, results |-> <<>>]}
  ELSE IF n = 0 THEN {[err |-> FALSE, results |-> <<>>]}
  ELSE LET returns == CallReturns(n)
       IN  ValidateFrom(1, 1, clients, returns)

(***************************************************************************)
(* Live monitor, invoked by the scheduler with the price map of the scan.  *)
(***************************************************************************)
MonitorVerdict(sig, price) ==
  IF sig.type = "LONG"
  THEN IF price >= sig.tp2 THEN "TP_HIT"
       ELSE IF price <= sig.sl THEN "SL_HIT" ELSE ""
  ELSE IF price <= sig.tp2 THEN "TP_HIT"
       ELSE IF price >= sig.sl THEN "SL_HIT" ELSE ""

MonitorCloses(st, prices, i) ==
  /\ st[i].status = "ACTIVE"
  /\ st[i].symbol \in DOMAIN prices
  /\ MonitorVerdict(st[i], prices[st[i].symbol]) # ""

CloseNotice(sig, reason) ==
  [kind |-> "close", symbol |-> sig.symbol, type |-> sig.type,
   aiScore |-> sig.aiScore, confl |-> sig.confl, reason |-> reason]

SignalNotice(sig) ==
  [kind |-> "signal", symbol |-> sig.symbol, type |-> sig.type,
   aiScore |-> sig.aiScore, confl |-> sig.confl, reason |-> ""]

CheckActiveSignalsAgainstPrices(st, prices) ==
  [i \in DOMAIN st |->
     IF MonitorCloses(st, prices, i)
     THEN [st[i] EXCEPT !.status = "CLOSED",
                        !.closeReason = MonitorVerdict(st[i], prices[st[i].symbol]),
                        !.exitPrice = prices[st[i].symbol]]
     ELSE st[i]]

RECURSIVE MonitorNotices(_, _, _)
MonitorNotices(st, prices, i) ==
  IF i > Len(st) THEN <<>>
  ELSE IF MonitorCloses(st, prices, i)
       THEN <<CloseNotice(st[i], MonitorVerdict(st[i], prices[st[i].symbol]))>>
              \o MonitorNotices(st, prices, i + 1)
       ELSE MonitorNotices(st, prices, i + 1)

(***************************************************************************)
(* Scheduler: Loader.Start and Loader.poll.                                *)
(***************************************************************************)
\* the locals of poll(); monCalls counts the calls of the monitor
InitLoc ==
  [symbols |-> <<>>, signals |-> <<>>, prices |-> <<>>, validForAI |-> <<>>,
   aiResults |-> <<>>, idx |-> 0, validSignals |-> 0, monCalls |-> 0]

PoolIdle ==
  [outs |-> <<>>, added |-> 0, jobs |-> <<>>, jobsClosed |-> FALSE,
   results |-> <<>>, resultsClosed |-> FALSE, wg |-> 0, ppc |-> "idle",
   wpc |-> <<>>, wjob |-> <<>>, panics |-> 0, signals |-> <<>>,
   prices |-> <<>>]

GateIdle ==
  [fn |-> "none", symbol |-> 0, type |-> "", entry |-> 0, readOK |-> TRUE,
   suppress |-> FALSE]

ValIdle ==
  [vpc |-> "idle", n |-> 0, mi |-> 0, ci |-> 0, last |-> "",
   resp |-> <<>>, out |-> [err |-> FALSE, results |-> <<>>]]

MonIdle ==
  [mpc |-> "idle", snapshot |-> <<>>, idx |-> 0, price |-> 0, checks |-> 0,
   alerts |-> <<>>, updated |-> FALSE]

\* the shutdown handler before a termination signal: code -1 is a running
\* process, pending is the cycles that were in flight when the signal came
ShutIdle == [hpc |-> "wait", code |-> -1, elapsed |-> 0, pending |-> {}]

\* no signal: the nil of EvaluateSymbol
NoEngineSignal ==
  [type |-> "", tier |-> "", entry |-> 0, sl |-> 0, tp1 |-> 0, tp2 |-> 0,
   rr |-> 0, score |-> 0, regime |-> ""]

\* the engine before an evaluation: no inputs, no candidate at the risk gate
EngIdle ==
  [epc |-> "idle", in |-> <<>>, cand |-> <<>>, out |-> NoEngineSignal,
   pivotName |-> ""]

\* the watchlists the scheduler starts from; a cycle over two symbols, with a
\* candidate of each, is run in SpecCooldown
Watchlists == {<<>>, <<1>>}
\* the instants the clock visits: the start, then 90, 240 and 241 minutes later
Instants == {1, 91, 241, 242}

InCycle(t) ==
  pc[t] \in {"watchlist", "scan", "monitor", "cooldown", "validate", "process",
             "send"}

\* what stays on record of a cycle that returned: the price map it
\* collected and the calls of the monitor it made
Returned(l) ==
  [InitLoc EXCEPT !.prices = l.prices, !.monCalls = l.monCalls]

\* return from poll(): the deferred function clears the flag
Return(t) ==
  /\ isPolling' = FALSE
  /\ pc' = [pc EXCEPT ![t] = "done"]
  /\ loc' = [loc EXCEPT ![t] = Returned(loc[t])]

\* a cron callback without the guard
Tick_Unguarded(t) ==
  /\ pc[t] = "idle"
  /\ t = ticks + 1
  /\ ticks' = ticks + 1
  /\ pc' = [pc EXCEPT ![t] = "ready"]
  /\ UNCHANGED <<isPolling, loc, watchlist, nClients, store, storeUp, sent, now, pool, gate, val, mon, shut, eng>>

\* a cron tick: the callback starts and evaluates its guard
Tick(t) ==
  /\ pc[t] = "idle"
  /\ t = ticks + 1
  /\ ticks' = ticks + 1
  /\ IF isPolling
     THEN pc' = [pc EXCEPT ![t] = "skipped"]
     ELSE pc' = [pc EXCEPT ![t] = "ready"]
  /\ UNCHANGED <<isPolling, loc, watchlist, nClients, store, storeUp, sent, now, pool, gate, val, mon, shut, eng>>

\* poll(): l.isPolling = true
PollBegin(t) ==
  /\ pc[t] = "ready"
  /\ isPolling' = TRUE
  /\ pc' = [pc EXCEPT ![t] = "watchlist"]
  /\ UNCHANGED <<ticks, loc, watchlist, nClients, store, storeUp, sent, now, pool, gate, val, mon, shut, eng>>

\* poll(): symbols, err := GetWatchlist() and the two early returns
PollWatchlist(t) ==
  /\ pc[t] = "watchlist"
  /\ IF ~storeUp THEN Return(t)
     ELSE IF Len(watchlist) = 0 THEN Return(t)
     ELSE /\ pc' = [pc EXCEPT ![t] = "scan"]
          /\ loc' = [loc EXCEPT ![t].symbols = watchlist]
          /\ UNCHANGED isPolling
  /\ UNCHANGED <<ticks, watchlist, nClients, store, storeUp, sent, now, pool, gate, val, mon, shut, eng>>

\* poll(): NewPool, Start, AddJob for every symbol, Wait.  The results
\* arrive in any order; more than ResultsCap published results never
\* return from Wait
PollScan(t) ==
  /\ pc[t] = "scan"
  /\ LET symbols == loc[t].symbols
     IN  \E outs \in [DOMAIN symbols ->
                        UNION {EvalOutcomes(symbols[i]) : i \in DOMAIN symbols}] :
           /\ \A i \in DOMAIN symbols : outs[i] \in EvalOutcomes(symbols[i])
           /\ LET pub == {i \in DOMAIN symbols : JobPublishes(outs[i])}
                  k == Cardinality(pub)
              IN  /\ k <= ResultsCap
                  /\ \E ord \in [1..k -> pub] :
                       /\ \A a, b \in 1..k : a # b => ord[a] # ord[b]
                       /\ LET results ==
                                [j \in 1..k |->
                                   ScanResultOf(symbols[ord[j]], outs[ord[j]])]
                          IN  loc' = [loc EXCEPT
                                        ![t].signals = CollectSignals(results),
                                        ![t].prices = CollectPrices(results)]
  /\ pc' = [pc EXCEPT ![t] = "monitor"]
  /\ UNCHANGED <<isPolling, ticks, watchlist, nClients, store, storeUp, sent,
                 now, pool, gate, val, mon, shut, eng>>

\* the monitor called only for a cycle that goes on to the cooldown filter
PollMonitor_AfterReturn(t) ==
  /\ pc[t] = "monitor"
  /\ LET called == DOMAIN loc[t].prices # {} /\ Len(loc[t].signals) # 0
         l == [loc[t] EXCEPT !.monCalls = @ + IF called THEN 1 ELSE 0]
     IN  /\ IF called /\ storeUp
            THEN /\ store' = CheckActiveSignalsAgainstPrices(store, loc[t].prices)
                 /\ sent' = sent \o MonitorNotices(store, loc[t].prices, 1)
            ELSE UNCHANGED <<store, sent>>
         /\ IF Len(loc[t].signals) = 0
            THEN /\ isPolling' = FALSE
                 /\ pc' = [pc EXCEPT ![t] = "done"]
                 /\ loc' = [loc EXCEPT ![t] = Returned(l)]
            ELSE /\ pc' = [pc EXCEPT ![t] = "cooldown"]
                 /\ loc' = [loc EXCEPT ![t] = l]
                 /\ UNCHANGED isPolling
  /\ UNCHANGED <<ticks, watchlist, nClients, storeUp, now, pool, gate, val, mon, shut, eng>>

\* poll(): piggyback monitoring when the price map is not empty (the
\* monitor is never nil), then the return when nothing was found.  With the
\* store down the monitor is called and reads nothing
PollMonitor(t) ==
  /\ pc[t] = "monitor"
  /\ LET called == DOMAIN loc[t].prices # {}
         l == [loc[t] EXCEPT !.monCalls = @ + IF called THEN 1 ELSE 0]
     IN  /\ IF called /\ storeUp
            THEN /\ store' = CheckActiveSignalsAgainstPrices(store, loc[t].prices)
                 /\ sent' = sent \o MonitorNotices(store, loc[t].prices, 1)
            ELSE UNCHANGED <<store, sent>>
         /\ IF Len(loc[t].signals) = 0
            THEN /\ isPolling' = FALSE
                 /\ pc' = [pc EXCEPT ![t] = "done"]
                 /\ loc' = [loc EXCEPT ![t] = Returned(l)]
            ELSE /\ pc' = [pc EXCEPT ![t] = "cooldown"]
                 /\ loc' = [loc EXCEPT ![t] = l]
                 /\ UNCHANGED isPolling
  /\ UNCHANGED <<ticks, watchlist, nClients, storeUp, now, pool, gate, val, mon, shut, eng>>

\* a call of CheckCooldown(symbol, 4h) and its answer
CooldownCall(st, symbol, t, readOK) ==
  [fn |-> "CheckCooldown", symbol |-> symbol, type |-> "", entry |-> 0,
   readOK |-> readOK,
   suppress |-> CheckCooldown(st, symbol, CooldownMinutes, t, readOK)]

\* a call of CheckDuplicateActiveSignal and its answer
DuplicateCall(st, symbol, type, entry, readOK) ==
  [fn |-> "CheckDuplicateActiveSignal", symbol |-> symbol, type |-> type,
   entry |-> entry, readOK |-> readOK,
   suppress |-> CheckDuplicateActiveSignal(st, symbol, type, entry, readOK)]

\* poll(): the cooldown loop, one candidate and its CheckCooldown read of
\* the store a step; a candidate that is not suppressed is appended to
\* validForAI.  After the last candidate: return when nothing is left
PollCooldown(t) ==
  /\ pc[t] = "cooldown"
  /\ LET signal == Head(loc[t].signals)
         rest == Tail(loc[t].signals)
         valid == IF CheckCooldown(store, signal.symbol, CooldownMinutes, now,
                                   storeUp)
                  THEN loc[t].validForAI
                  ELSE Append(loc[t].validForAI, signal)
     IN  /\ gate' = CooldownCall(store, signal.symbol, now, storeUp)
         /\ IF rest # <<>>
            THEN /\ loc' = [loc EXCEPT ![t].signals = rest,
                                       ![t].validForAI = valid]
                 /\ UNCHANGED <<isPolling, pc>>
            ELSE IF Len(valid) = 0
            THEN Return(t)
            ELSE /\ loc' = [loc EXCEPT ![t].signals = <<>>,
                                       ![t].validForAI = valid]
                 /\ pc' = [pc EXCEPT ![t] = "validate"]
                 /\ UNCHANGED isPolling
  /\ UNCHANGED <<ticks, watchlist, nClients, store, storeUp, sent, now, pool, val, mon, shut, eng>>

\* poll(): BatchValidateSignals on validForAI; an error ends the cycle
PollValidate(t) ==
  /\ pc[t] = "validate"
  /\ \E res \in BatchValidateSignals(Len(loc[t].validForAI), nClients) :
       IF res.err
       THEN Return(t)
       ELSE /\ loc' = [loc EXCEPT ![t].aiResults = res.results, ![t].idx = 1]
            /\ pc' = [pc EXCEPT ![t] = "process"]
            /\ UNCHANGED isPolling
  /\ UNCHANGED <<ticks, watchlist, nClients, store, storeUp, sent, now, pool, gate, val, mon, shut, eng>>

\* the merge of the verdict into the signal
MergeVerdict(signal, result) ==
  [signal EXCEPT !.aiScore = result.score, !.aiTier = result.tier]

\* the score filter with < in place of <=
ScoresTooLow_NonStrict(result, signal) ==
  result.score < ScoreGate \/ signal.confl < ScoreGate

\* the strict score filter: TRUE = the signal is dropped
ScoresTooLow(result, signal) ==
  result.score <= ScoreGate \/ signal.confl <= ScoreGate

\* the next iteration of the loop over validForAI, or the return after the
\* last one
NextSignal(t, l) ==
  IF l.idx = Len(l.validForAI)
  THEN /\ isPolling' = FALSE
       /\ pc' = [pc EXCEPT ![t] = "done"]
       /\ loc' = [loc EXCEPT ![t] = Returned(l)]
  ELSE /\ loc' = [loc EXCEPT ![t] = [l EXCEPT !.idx = @ + 1]]
       /\ pc' = [pc EXCEPT ![t] = "process"]
       /\ UNCHANGED isPolling

\* a loop that a failed save ends
PollProcess_StopOnFailure(t) ==
  /\ pc[t] = "process"
  /\ LET i == loc[t].idx
         signal == loc[t].validForAI[i]
     IN  IF i > Len(loc[t].aiResults)
         THEN /\ NextSignal(t, loc[t])
              /\ UNCHANGED store
         ELSE LET merged == MergeVerdict(signal, loc[t].aiResults[i])
              IN  IF ScoresTooLow(loc[t].aiResults[i], merged)
                  THEN /\ NextSignal(t, loc[t])
                       /\ UNCHANGED store
                  ELSE IF ~storeUp
                  THEN /\ Return(t)
                       /\ UNCHANGED store
                  ELSE /\ store' = SaveSignal(store, merged, now)
                       /\ pc' = [pc EXCEPT ![t] = "send"]
                       /\ UNCHANGED <<isPolling, loc>>
  /\ UNCHANGED <<ticks, watchlist, nClients, storeUp, sent, now, pool, gate, val,
                 mon, shut, eng>>

\* poll(): one iteration of the loop over validForAI up to the return of
\* SaveSignal: the merge, the score filter and the insert.  A signal without
\* a verdict, with a low score or whose save failed is passed over
PollProcess(t) ==
  /\ pc[t] = "process"
  /\ LET i == loc[t].idx
         signal == loc[t].validForAI[i]
     IN  IF i > Len(loc[t].aiResults)
         THEN /\ NextSignal(t, loc[t])
              /\ UNCHANGED store
         ELSE LET merged == MergeVerdict(signal, loc[t].aiResults[i])
              IN  IF ScoresTooLow(loc[t].aiResults[i], merged)
                  THEN /\ NextSignal(t, loc[t])
                       /\ UNCHANGED store
                  ELSE IF ~storeUp
                  THEN /\ NextSignal(t, loc[t])
                       /\ UNCHANGED store
                  ELSE /\ store' = SaveSignal(store, merged, now)
                       /\ pc' = [pc EXCEPT ![t] = "send"]
                       /\ UNCHANGED <<isPolling, loc>>
  /\ UNCHANGED <<ticks, watchlist, nClients, storeUp, sent, now, pool, gate, val,
                 mon, shut, eng>>

\* poll(): SendSignal returns for the signal that was saved; validSignals
\* counts the signals sent
PollSend(t) ==
  /\ pc[t] = "send"
  /\ LET i == loc[t].idx
         merged == MergeVerdict(loc[t].validForAI[i], loc[t].aiResults[i])
     IN  \E sendOK \in BOOLEAN :
           IF sendOK
           THEN /\ sent' = Append(sent, SignalNotice(merged))
                /\ NextSignal(t, [loc[t] EXCEPT !.validSignals = @ + 1])
           ELSE /\ sent' = sent
                /\ NextSignal(t, loc[t])
  /\ UNCHANGED <<ticks, watchlist, nClients, store, storeUp, now, pool, gate,
                 val, mon, shut, eng>>

\* the symbols the operator names; a text that does not end in USDT is
\* rejected by AddSymbol and matches nothing in RemoveSymbol
SymbolInputs == {1}

\* /symbol add: AddSymbol upserts the symbol, a new one at the end of the
\* collection; a store that is down is an error
AddSymbol ==
  /\ \E symbol \in SymbolInputs :
       watchlist' =
         IF storeUp /\ \A i \in DOMAIN watchlist : watchlist[i] # symbol
         THEN Append(watchlist, symbol)
         ELSE watchlist
  /\ UNCHANGED <<isPolling, ticks, pc, loc, nClients, store, storeUp, sent, now,
                 pool, gate, val, mon, shut, eng>>

\* /symbol del: RemoveSymbol deletes the document of the symbol
RemoveSymbol ==
  /\ \E symbol \in SymbolInputs :
       watchlist' =
         IF storeUp THEN SelectSeq(watchlist, LAMBDA sy : sy # symbol)
         ELSE watchlist
  /\ UNCHANGED <<isPolling, ticks, pc, loc, nClients, store, storeUp, sent, now,
                 pool, gate, val, mon, shut, eng>>

\* the wall clock moves on
Advance ==
  /\ \E i \in Instants : i > now /\ now' = i
  /\ UNCHANGED <<isPolling, ticks, pc, loc, watchlist, nClients, store, storeUp,
                 sent, pool, gate, val, mon, shut, eng>>

\* the store becomes unreachable, or reachable again
StoreFlip ==
  /\ storeUp' = ~storeUp
  /\ UNCHANGED <<isPolling, ticks, pc, loc, watchlist, nClients, store, sent,
                 now, pool, gate, val, mon, shut, eng>>

SchedInit ==
  /\ isPolling = FALSE
  /\ ticks = 0
  /\ pc = [t \in Threads |-> "idle"]
  /\ loc = [t \in Threads |-> InitLoc]
  /\ watchlist \in Watchlists
  /\ nClients \in 0..MaxClients
  /\ store = <<>>
  /\ storeUp = TRUE
  /\ sent = <<>>
  /\ now = 1
  /\ pool = PoolIdle
  /\ gate = GateIdle
  /\ val = ValIdle
  /\ mon = MonIdle
  /\ shut = ShutIdle
  /\ eng = EngIdle

SchedNext ==
  \/ \E t \in Threads : Tick(t)
  \/ \E t \in Threads : PollBegin(t)
  \/ \E t \in Threads : PollWatchlist(t)
  \/ \E t \in Threads : PollScan(t)
  \/ \E t \in Threads : PollMonitor(t)
  \/ \E t \in Threads : PollCooldown(t)
  \/ \E t \in Threads : PollValidate(t)
  \/ \E t \in Threads : PollProcess(t)
  \/ \E t \in Threads : PollSend(t)
  \/ AddSymbol
  \/ RemoveSymbol
  \/ Advance
  \/ StoreFlip

Spec == SchedInit /\ [][SchedNext]_vars

(***************************************************************************)
(* Worker pool: NewPool, Start, worker, AddJob, Wait.  pool.outs[i] is     *)
(* what EvaluateSymbol returns for the i-th symbol handed to AddJob; the   *)
(* producer is the goroutine that calls AddJob and then Wait.              *)
(***************************************************************************)
Workers == DOMAIN pool.wpc

\* the pool after NewPool(workers, strategy) and Start()
NewPool(workers, outs) ==
  [outs |-> outs, added |-> 0, jobs |-> <<>>, jobsClosed |-> FALSE,
   results |-> <<>>, resultsClosed |-> FALSE, wg |-> workers, ppc |-> "adding",
   wpc |-> [w \in 1..workers |-> "recv"], wjob |-> [w \in 1..workers |-> 0],
   panics |-> 0, signals |-> <<>>, prices |-> <<>>]

\* AddJob: p.jobs <- symbol, blocking while the channel is full
AddJob ==
  /\ pool.ppc = "adding"
  /\ pool.added < Len(pool.outs)
  /\ Len(pool.jobs) < JobsCap
  /\ pool' = [pool EXCEPT !.jobs = Append(@, pool.added + 1),
                          !.added = @ + 1]
  /\ UNCHANGED <<isPolling, ticks, pc, loc, watchlist, nClients, store, storeUp,
                 sent, now, gate, val, mon, shut, eng>>

\* Wait: close(p.jobs), then p.wg.Wait()
WaitClose ==
  /\ pool.ppc = "adding"
  /\ pool.added = Len(pool.outs)
  /\ pool' = [pool EXCEPT !.jobsClosed = TRUE, !.ppc = "wgwait"]
  /\ UNCHANGED <<isPolling, ticks, pc, loc, watchlist, nClients, store, storeUp,
                 sent, now, gate, val, mon, shut, eng>>

\* Wait: wg.Wait() returns, close(p.results), the collection loop, return
WaitCollect ==
  /\ pool.ppc = "wgwait"
  /\ pool.wg = 0
  /\ pool' = [pool EXCEPT !.resultsClosed = TRUE,
                          !.results = <<>>,
                          !.signals = CollectSignals(pool.results),
                          !.prices = CollectPrices(pool.results),
                          !.ppc = "returned"]
  /\ UNCHANGED <<isPolling, ticks, pc, loc, watchlist, nClients, store, storeUp,
                 sent, now, gate, val, mon, shut, eng>>

\* worker: for symbol := range p.jobs, and wg.Done when the loop ends
WorkerRecv(w) ==
  /\ pool.wpc[w] = "recv"
  /\ IF Len(pool.jobs) > 0
     THEN pool' = [pool EXCEPT !.jobs = Tail(@),
                               !.wjob[w] = Head(pool.jobs),
                               !.wpc[w] = "eval"]
     ELSE /\ pool.jobsClosed
          /\ pool' = [pool EXCEPT !.wpc[w] = "done", !.wg = @ - 1]
  /\ UNCHANGED <<isPolling, ticks, pc, loc, watchlist, nClients, store, storeUp,
                 sent, now, gate, val, mon, shut, eng>>

\* a worker whose job closure has no recover of its own: the panic unwinds
\* the loop and only the deferred calls of worker() run
WorkerEval_PanicKills(w) ==
  /\ pool.wpc[w] = "eval"
  /\ LET out == pool.outs[pool.wjob[w]]
     IN  IF out.kind = "panic"
         THEN pool' = [pool EXCEPT !.wpc[w] = "done", !.wjob[w] = 0,
                                   !.panics = @ + 1, !.wg = @ - 1]
         ELSE IF ~JobPublishes(out)
         THEN pool' = [pool EXCEPT !.wpc[w] = "recv", !.wjob[w] = 0]
         ELSE pool' = [pool EXCEPT !.wpc[w] = "send"]
  /\ UNCHANGED <<isPolling, ticks, pc, loc, watchlist, nClients, store, storeUp,
                 sent, now, gate, val, mon, shut, eng>>

\* a worker that takes an error of the engine for the end of its loop
WorkerEval_ErrorKills(w) ==
  /\ pool.wpc[w] = "eval"
  /\ LET out == pool.outs[pool.wjob[w]]
     IN  IF out.kind = "panic"
         THEN pool' = [pool EXCEPT !.wpc[w] = "recv", !.wjob[w] = 0,
                                   !.panics = @ + 1]
         ELSE IF ~JobPublishes(out)
         THEN pool' = [pool EXCEPT !.wpc[w] = "done", !.wjob[w] = 0,
                                   !.wg = @ - 1]
         ELSE pool' = [pool EXCEPT !.wpc[w] = "send"]
  /\ UNCHANGED <<isPolling, ticks, pc, loc, watchlist, nClients, store, storeUp,
                 sent, now, gate, val, mon, shut, eng>>

\* worker: the job closure up to the send: EvaluateSymbol returns an error
\* (logged, no result), panics (recovered by the deferred RecoverAndLog of
\* the closure, the loop goes on) or returns a result to publish
WorkerEval(w) ==
  /\ pool.wpc[w] = "eval"
  /\ LET out == pool.outs[pool.wjob[w]]
     IN  IF out.kind = "panic"
         THEN pool' = [pool EXCEPT !.wpc[w] = "recv", !.wjob[w] = 0,
                                   !.panics = @ + 1]
         ELSE IF ~JobPublishes(out)
         THEN pool' = [pool EXCEPT !.wpc[w] = "recv", !.wjob[w] = 0]
         ELSE pool' = [pool EXCEPT !.wpc[w] = "send"]
  /\ UNCHANGED <<isPolling, ticks, pc, loc, watchlist, nClients, store, storeUp,
                 sent, now, gate, val, mon, shut, eng>>

\* worker: p.results <- ScanResult{...}, blocking while the channel is full
WorkerSend(w) ==
  /\ pool.wpc[w] = "send"
  /\ Len(pool.results) < ResultsCap
  /\ pool' = [pool EXCEPT
       !.results = Append(@, ScanResultOf(pool.wjob[w], pool.outs[pool.wjob[w]])),
       !.wpc[w] = "recv", !.wjob[w] = 0]
  /\ UNCHANGED <<isPolling, ticks, pc, loc, watchlist, nClients, store, storeUp,
                 sent, now, gate, val, mon, shut, eng>>

\* a quote for every symbol, no signal: every job publishes a result
AllQuoted(n) == [i \in 1..n |-> [kind |-> "ok", signal |-> NoSignal, price |-> 106000]]

\* the outcomes that differ for the pool: one candidate per symbol is enough
PoolOutcomes(symbol) ==
  {o \in EvalOutcomes(symbol) : o.signal = NoSignal \/ o.signal.confl > ScoreGate}

SmallRuns ==
  UNION {[1..n -> UNION {PoolOutcomes(i) : i \in 1..n}] : n \in 0..MaxJobs}

PoolInitCommon ==
  /\ isPolling = FALSE
  /\ ticks = 0
  /\ pc = [t \in Threads |-> "idle"]
  /\ loc = [t \in Threads |-> InitLoc]
  /\ watchlist = <<>>
  /\ nClients = 0
  /\ store = <<>>
  /\ storeUp = TRUE
  /\ sent = <<>>
  /\ now = 1
  /\ gate = GateIdle
  /\ val = ValIdle
  /\ mon = MonIdle
  /\ shut = ShutIdle
  /\ eng = EngIdle

\* watchlists of up to MaxJobs symbols with every mix of outcomes
PoolInitSmall ==
  /\ PoolInitCommon
  /\ \E outs \in SmallRuns, workers \in 1..MaxWorkers :
       /\ \A i \in DOMAIN outs : outs[i] \in PoolOutcomes(i)
       /\ pool = NewPool(workers, outs)

\* the same, and a watchlist of one symbol more than the results channel holds
PoolInit ==
  \/ PoolInitSmall
  \/ /\ PoolInitCommon
     /\ pool = NewPool(1, AllQuoted(ResultsCap + 1))

PoolNext ==
  \/ AddJob
  \/ WaitClose
  \/ WaitCollect
  \/ \E w \in Workers : WorkerRecv(w)
  \/ \E w \in Workers : WorkerEval(w)
  \/ \E w \in Workers : WorkerSend(w)

SpecPool == PoolInit /\ [][PoolNext]_vars

\* the Go scheduler runs every goroutine that can take a step
PoolFairness ==
  /\ WF_vars(AddJob)
  /\ WF_vars(WaitClose)
  /\ WF_vars(WaitCollect)
  /\ \A w \in 1..MaxWorkers :
       WF_vars(w \in Workers /\ (WorkerRecv(w) \/ WorkerEval(w) \/ WorkerSend(w)))

SpecPoolFair == PoolInitSmall /\ [][PoolNext]_vars /\ PoolFairness

\* a second call of Wait on the pool after the first has returned: its
\* first statement closes p.jobs, and the close of a closed channel panics
WaitAgain ==
  /\ pool.ppc = "returned"
  /\ IF pool.jobsClosed
     THEN pool' = [pool EXCEPT !.ppc = "panic", !.panics = @ + 1]
     ELSE pool' = [pool EXCEPT !.jobsClosed = TRUE, !.ppc = "wgwait"]
  /\ UNCHANGED <<isPolling, ticks, pc, loc, watchlist, nClients, store, storeUp,
                 sent, now, gate, val, mon, shut, eng>>

WaitTwiceNext ==
  \/ PoolNext
  \/ WaitAgain

\* the pool with a caller that calls Wait a second time
SpecWaitTwice == PoolInitSmall /\ [][WaitTwiceNext]_vars

(***************************************************************************)
(* One cycle of poll() with the pool of its scan running step by step, and *)
(* the tick that fires beside it.  The cycle is thread 1, past the         *)
(* watchlist and NewPool / Start; the tick is thread 2.                    *)
(***************************************************************************)
\* poll(): signals, prices := pool.Wait() has returned
CycleCollect(t) ==
  /\ pc[t] = "scan"
  /\ pool.ppc = "returned"
  /\ loc' = [loc EXCEPT ![t].signals = pool.signals, ![t].prices = pool.prices]
  /\ pc' = [pc EXCEPT ![t] = "monitor"]
  /\ pool' = PoolIdle
  /\ UNCHANGED <<isPolling, ticks, watchlist, nClients, store, storeUp, sent,
                 now, gate, val, mon, shut, eng>>

\* a watchlist of one symbol with every outcome, and one of a symbol more
\* than the results channel holds, every symbol quoted
CycleInit ==
  /\ isPolling = TRUE
  /\ ticks = 1
  /\ pc = [t \in Threads |-> IF t = 1 THEN "scan" ELSE "idle"]
  /\ \/ /\ watchlist = <<1>>
        /\ \E out \in EvalOutcomes(1), workers \in 1..MaxWorkers :
             pool = NewPool(workers, <<out>>)
     \/ /\ watchlist = [i \in 1..(ResultsCap + 1) |-> i]
        /\ pool = NewPool(1, AllQuoted(ResultsCap + 1))
  /\ loc = [t \in Threads |->
              IF t = 1 THEN [InitLoc EXCEPT !.symbols = watchlist] ELSE InitLoc]
  /\ nClients \in 0..MaxClients
  /\ store = <<>>
  /\ storeUp \in BOOLEAN
  /\ sent = <<>>
  /\ now = 1
  /\ gate = GateIdle
  /\ val = ValIdle
  /\ mon = MonIdle
  /\ shut = ShutIdle
  /\ eng = EngIdle

CycleNext ==
  \/ AddJob
  \/ WaitClose
  \/ WaitCollect
  \/ \E w \in Workers : WorkerRecv(w)
  \/ \E w \in Workers : WorkerEval(w)
  \/ \E w \in Workers : WorkerSend(w)
  \/ CycleCollect(1)
  \/ PollMonitor(1)
  \/ PollCooldown(1)
  \/ PollValidate(1)
  \/ PollProcess(1)
  \/ PollSend(1)
  \/ Tick(2)

SpecCycle == CycleInit /\ [][CycleNext]_vars

(***************************************************************************)
(* The two gate predicates applied to stores and candidates drawn from     *)
(* bounded sets.  Documents carry distinct created_at stamps in insertion  *)
(* order, as SaveSignal produces them.                                     *)
(***************************************************************************)
GateDocs ==
  {[NewSignal(1, ty, e, IF ty = "LONG" THEN 97000 ELSE 109000,
              IF ty = "LONG" THEN 109000 ELSE 97000, 71) EXCEPT !.status = stt, !.aiScore = 71] :
     ty \in Types, e \in {100000, 103000}, stt \in {"ACTIVE", "CLOSED"}}
  \cup {[NewSignal(2, "LONG", 100000, 98000, 106000, 71) EXCEPT !.aiScore = 71]}

GateStores ==
  UNION {{[k \in 1..n |-> [docs[k] EXCEPT !.createdAt = k]] :
            docs \in [1..n -> GateDocs]} : n \in 0..MaxStore}

GateEntries == {98400, 98500, 98600, 100000, 101400, 101500, 101600}

GateCheckCooldown(symbol) ==
  /\ gate' = CooldownCall(store, symbol, now, storeUp)
  /\ UNCHANGED <<isPolling, ticks, pc, loc, watchlist, nClients, store, storeUp,
                 sent, now, pool, val, mon, shut, eng>>

GateCheckDuplicate(symbol, type, entry) ==
  /\ gate' = DuplicateCall(store, symbol, type, entry, storeUp)
  /\ UNCHANGED <<isPolling, ticks, pc, loc, watchlist, nClients, store, storeUp,
                 sent, now, pool, val, mon, shut, eng>>

GateInit ==
  /\ isPolling = FALSE
  /\ ticks = 0
  /\ pc = [t \in Threads |-> "idle"]
  /\ loc = [t \in Threads |-> InitLoc]
  /\ watchlist = <<>>
  /\ nClients = 0
  /\ store \in GateStores
  /\ storeUp \in BOOLEAN
  /\ sent = <<>>
  /\ now \in Instants \ {1}
  /\ pool = PoolIdle
  /\ gate = GateIdle
  /\ val = ValIdle
  /\ mon = MonIdle
  /\ shut = ShutIdle
  /\ eng = EngIdle

GateNext ==
  \/ \E symbol \in {1, 2} : GateCheckCooldown(symbol)
  \/ \E symbol \in {1, 2}, type \in Types, entry \in GateEntries :
       GateCheckDuplicate(symbol, type, entry)

SpecGate == GateInit /\ [][GateNext]_vars

(***************************************************************************)
(* One call of BatchValidateSignals, followed request by request.  The     *)
(* batch is the candidates 1..n in prompt order; an entry of the response  *)
(* names in "signal" the candidate it judges.                              *)
(***************************************************************************)
\* what the validator can say about one candidate: score and tier as sent
ValJudgements == {<<95, "">>, <<71, "standard">>, <<40, "HOLD">>, <<90, "REJECT">>}

ValEntries ==
  {[signal |-> k, score |-> j[1], confidence |-> 80, tier |-> j[2], reason |-> "r"] :
     k \in 1..MaxBatch, j \in ValJudgements}

\* the arrays a response can parse to: fewer, as many or more entries than
\* candidates, in any order
ValResponses(n) == UNION {[1..k -> ValEntries] : k \in 0..(n + 1)}

\* the two early returns, then the first request
ValBegin ==
  /\ val.vpc = "idle"
  /\ IF nClients = 0
     THEN val' = [val EXCEPT !.vpc = "done",
                             !.out = [err |-> TRUE, results |-> <<>>]]
     ELSE IF val.n = 0
     THEN val' = [val EXCEPT !.vpc = "done",
                             !.out = [err |-> FALSE, results |-> <<>>]]
     ELSE val' = [val EXCEPT !.vpc = "call", !.mi = 1, !.ci = 1]
  /\ UNCHANGED <<isPolling, ticks, pc, loc, watchlist, nClients, store, storeUp,
                 sent, now, pool, gate, mon, shut, eng>>

\* GenerateContent returns an error: continue, break, or the end of both loops
ValCallFails ==
  /\ val.vpc = "call"
  /\ \E failure \in CallFailures :
       LET nx == NextCall(val.mi, val.ci, failure, nClients)
       IN  IF nx.mi > NumModels
           THEN val' = [val EXCEPT !.vpc = "done", !.last = failure,
                                   !.out = [err |-> TRUE, results |-> <<>>]]
           ELSE val' = [val EXCEPT !.mi = nx.mi, !.ci = nx.ci, !.last = failure]
  /\ UNCHANGED <<isPolling, ticks, pc, loc, watchlist, nClients, store, storeUp,
                 sent, now, pool, gate, mon, shut, eng>>

\* GenerateContent succeeds and the text parses as a JSON array
ValCallReturns ==
  /\ val.vpc = "call"
  /\ \E resp \in ValResponses(val.n) :
       val' = [val EXCEPT !.vpc = "done", !.last = "parsed", !.resp = resp,
                 !.out = [err |-> FALSE, results |-> ConvertResults(resp, val.n)]]
  /\ UNCHANGED <<isPolling, ticks, pc, loc, watchlist, nClients, store, storeUp,
                 sent, now, pool, gate, mon, shut, eng>>

\* GenerateContent succeeds and json.Unmarshal fails
ValCallGarbled ==
  /\ val.vpc = "call"
  /\ val' = [val EXCEPT !.vpc = "done", !.last = "unparseable",
               !.out = [err |-> FALSE, results |-> DefaultResults(val.n)]]
  /\ UNCHANGED <<isPolling, ticks, pc, loc, watchlist, nClients, store, storeUp,
                 sent, now, pool, gate, mon, shut, eng>>

ValInit ==
  /\ isPolling = FALSE
  /\ ticks = 0
  /\ pc = [t \in Threads |-> "idle"]
  /\ loc = [t \in Threads |-> InitLoc]
  /\ watchlist = <<>>
  /\ nClients \in 0..(MaxClients + 1)
  /\ store = <<>>
  /\ storeUp = TRUE
  /\ sent = <<>>
  /\ now = 1
  /\ pool = PoolIdle
  /\ gate = GateIdle
  /\ \E n \in 0..MaxBatch : val = [ValIdle EXCEPT !.n = n]
  /\ mon = MonIdle
  /\ shut = ShutIdle
  /\ eng = EngIdle

ValNext ==
  \/ ValBegin
  \/ ValCallFails
  \/ ValCallReturns
  \/ ValCallGarbled

SpecValidator == ValInit /\ [][ValNext]_vars

(***************************************************************************)
(* SignalMonitor, the variant main.go constructs: MonitorActiveSignals,    *)
(* checkSignal, checkLongSignal, checkShortSignal, closeSignal; beside it  *)
(* the scheduler's SaveSignal and the operator's /reset.  PnL and the      *)
(* percentages of the advisory alerts are in thousandths of a percent.     *)
(* The other variant of signal_monitor.go, CheckTPSLHits with              *)
(* markSignalClosed, is SpecPass further down.                             *)
(***************************************************************************)
\* a document of the signals collection with the fields the monitor uses;
\* tp2 is Signal.TakeProfit, which the engine sets to take-profit 2
MonSignal(sym, type, entry, sl, tp2, ts) ==
  [symbol |-> sym, type |-> type, entry |-> entry, sl |-> sl, tp2 |-> tp2,
   status |-> "ACTIVE", closeReason |-> "", pnl |-> 0, timestamp |-> ts,
   createdAt |-> ZeroTime]

\* the signals the scheduler can persist at instant t
MonCandidates(t) ==
  {MonSignal(1, "LONG", 100000, 98000, 106000, t),
   MonSignal(1, "SHORT", 100000, 102000, 94000, t)}

\* closes of the last 1m kline
MonPrices == {94000, 98000, 98500, 98800, 102000, 103000, 106000, 106010}

\* the instants the clock visits: creation, 2 minutes and 5 minutes later
MonInstants == {1, 3, 6}

\* pnl := ((currentPrice - entry) / entry) * 100 for LONG,
\*        ((entry - currentPrice) / entry) * 100 for SHORT
RealizedPnl(type, entry, price) ==
  IF type = "LONG" THEN ((price - entry) * 100000) \div entry
  ELSE ((entry - price) * 100000) \div entry

\* drop (LONG) or rise (SHORT) against the entry
AdverseMove(type, entry, price) ==
  IF type = "LONG" THEN ((entry - price) * 100000) \div entry
  ELSE ((price - entry) * 100000) \div entry

\* the guard of sendReversalWarning
ReversalDue(sig, price, t) ==
  /\ t - sig.timestamp < ReversalWindow
  /\ AdverseMove(sig.type, sig.entry, price) >= 1000
  /\ AdverseMove(sig.type, sig.entry, price) < 2000

\* the guard of sendTrailingStopSuggestion
TrailingDue(sig, price) ==
  /\ RealizedPnl(sig.type, sig.entry, price) >= 3000
  /\ RealizedPnl(sig.type, sig.entry, price) < 6000

Alert(kind, sig) ==
  [kind |-> kind, symbol |-> sig.symbol, type |-> sig.type,
   timestamp |-> sig.timestamp]

\* UpdateOne({symbol, status: ACTIVE, timestamp}, $set status, close_reason,
\* pnl): the first matching document, none when nothing matches or the
\* write fails
closeSignal(st, sig, reason, pnl, writeOK) ==
  LET match == {i \in DOMAIN st : /\ st[i].symbol = sig.symbol
                                  /\ st[i].status = "ACTIVE"
                                  /\ st[i].timestamp = sig.timestamp}
  IN  IF ~writeOK \/ match = {} THEN st
      ELSE LET i == CHOOSE j \in match : \A k \in match : j <= k
           IN  [st EXCEPT ![i] = [@ EXCEPT !.status = "CLOSED",
                                           !.closeReason = reason,
                                           !.pnl = pnl]]

\* UpdateMany({status: ACTIVE}, $set status CLOSED, close_reason)
CloseAllActiveSignals(st, reason) ==
  [i \in DOMAIN st |->
     IF st[i].status = "ACTIVE"
     THEN [st[i] EXCEPT !.status = "CLOSED", !.closeReason = reason]
     ELSE st[i]]

\* the alerts of checkLongSignal / checkShortSignal, in the order sent
AlertsOf(sig, price, t) ==
  IF MonitorVerdict(sig, price) = "TP_HIT" THEN <<Alert("tp", sig)>>
  ELSE IF MonitorVerdict(sig, price) = "SL_HIT" THEN <<Alert("sl", sig)>>
  ELSE (IF ReversalDue(sig, price, t) THEN <<Alert("reversal", sig)>> ELSE <<>>)
       \o (IF TrailingDue(sig, price) THEN <<Alert("trailing", sig)>> ELSE <<>>)

\* a pass that reads every signal of the collection, closed ones too
MonitorFind_AllSignals ==
  /\ mon.mpc = "idle"
  /\ LET signals == store
     IN  IF ~storeUp \/ Len(signals) = 0
         THEN mon' = [mon EXCEPT !.price = 0]
         ELSE mon' = [mon EXCEPT !.price = 0, !.mpc = "check",
                                 !.snapshot = signals, !.idx = 1]
  /\ UNCHANGED <<isPolling, ticks, pc, loc, watchlist, nClients, store, storeUp,
                 sent, now, pool, gate, val, shut, eng>>

\* MonitorActiveSignals: Find({status: ACTIVE}) and the two early returns
MonitorFind ==
  /\ mon.mpc = "idle"
  /\ LET signals == SelectSeq(store, LAMBDA d : d.status = "ACTIVE")
     IN  IF ~storeUp \/ Len(signals) = 0
         THEN mon' = [mon EXCEPT !.price = 0]
         ELSE mon' = [mon EXCEPT !.price = 0, !.mpc = "check",
                                 !.snapshot = signals, !.idx = 1]
  /\ UNCHANGED <<isPolling, ticks, pc, loc, watchlist, nClients, store, storeUp,
                 sent, now, pool, gate, val, shut, eng>>

\* the next signal of the loop, or the return after the last one
MonitorAfter(m) ==
  IF mon.idx = Len(mon.snapshot)
  THEN mon' = [m EXCEPT !.mpc = "idle", !.snapshot = <<>>, !.idx = 0]
  ELSE mon' = [m EXCEPT !.mpc = "check", !.idx = @ + 1]

\* checkLongSignal / checkShortSignal after closeSignal has returned: the
\* messages still to send, each a call of SendMessage of its own; updated
\* is the err == nil of the UpdateOne in closeSignal, which checkSignal
\* does not get to see
MonitorSending(m, alerts, updated) ==
  IF alerts = <<>>
  THEN MonitorAfter([m EXCEPT !.alerts = <<>>, !.updated = FALSE])
  ELSE mon' = [m EXCEPT !.mpc = "alert", !.alerts = alerts, !.updated = updated]

\* checkSignal: GetKlines fails or returns nothing
MonitorNoPrice ==
  /\ mon.mpc = "check"
  /\ MonitorAfter([mon EXCEPT !.price = 0])
  /\ UNCHANGED <<isPolling, ticks, pc, loc, watchlist, nClients, store, storeUp,
                 sent, now, pool, gate, val, shut, eng>>

\* checkSignal with a price, up to the return of closeSignal:
\* checkLongSignal / checkShortSignal decide, a hit is written to the store,
\* and the messages of the check are still to be sent
MonitorCheck ==
  /\ mon.mpc = "check"
  /\ mon.checks < MaxChecks
  /\ \E price \in MonPrices :
       LET sig == mon.snapshot[mon.idx]
           reason == MonitorVerdict(sig, price)
       IN  /\ IF reason # ""
              THEN store' = closeSignal(store, sig, reason,
                                        RealizedPnl(sig.type, sig.entry, price),
                                        storeUp)
              ELSE store' = store
           /\ MonitorSending([mon EXCEPT !.price = price, !.checks = @ + 1],
                             AlertsOf(sig, price, now), reason # "" /\ storeUp)
  /\ UNCHANGED <<isPolling, ticks, pc, loc, watchlist, nClients, storeUp, sent,
                 now, pool, gate, val, shut, eng>>

\* sendTPAlert, sendSLAlert, sendReversalWarning or
\* sendTrailingStopSuggestion: telegram.SendMessage returns
MonitorAlert ==
  /\ mon.mpc = "alert"
  /\ sent' = Append(sent, Head(mon.alerts))
  /\ MonitorSending(mon, Tail(mon.alerts), mon.updated)
  /\ UNCHANGED <<isPolling, ticks, pc, loc, watchlist, nClients, store, storeUp,
                 now, pool, gate, val, shut, eng>>

\* the scheduler persists a signal it assembled at this instant; Timestamp
\* is time.Now() of the assembly, so no two signals of a symbol share it
MonPersist ==
  /\ storeUp
  /\ Len(store) < MaxStore
  /\ \E sig \in MonCandidates(now) :
       /\ \A i \in DOMAIN store :
            ~(store[i].symbol = sig.symbol /\ store[i].timestamp = sig.timestamp)
       /\ \A k \in DOMAIN mon.snapshot :
            ~(mon.snapshot[k].symbol = sig.symbol
              /\ mon.snapshot[k].timestamp = sig.timestamp)
       /\ store' = SaveSignal(store, sig, now)
  /\ UNCHANGED <<isPolling, ticks, pc, loc, watchlist, nClients, storeUp, sent,
                 now, pool, gate, val, mon, shut, eng>>

\* handleReset: DeleteMany({}) on the signals collection; the reply goes to
\* the operator's chat, which the model does not keep
handleReset ==
  /\ IF storeUp THEN store' = <<>> ELSE store' = store
  /\ UNCHANGED <<isPolling, ticks, pc, loc, watchlist, nClients, storeUp, sent,
                 now, pool, gate, val, mon, shut, eng>>

\* the reasons a bulk close is given
CloseReasons == {"MANUAL_RESET"}

\* a call of CloseAllActiveSignals(reason); a store that is down returns the
\* error and closes nothing
BulkClose ==
  /\ \E reason \in CloseReasons :
       store' = IF storeUp THEN CloseAllActiveSignals(store, reason) ELSE store
  /\ UNCHANGED <<isPolling, ticks, pc, loc, watchlist, nClients, storeUp, sent,
                 now, pool, gate, val, mon, shut, eng>>

MonAdvance ==
  /\ \E i \in MonInstants : i > now /\ now' = i
  /\ UNCHANGED <<isPolling, ticks, pc, loc, watchlist, nClients, store, storeUp,
                 sent, pool, gate, val, mon, shut, eng>>

MonInit ==
  /\ isPolling = FALSE
  /\ ticks = 0
  /\ pc = [t \in Threads |-> "idle"]
  /\ loc = [t \in Threads |-> InitLoc]
  /\ watchlist = <<>>
  /\ nClients = 0
  /\ store = <<>>
  /\ storeUp = TRUE
  /\ sent = <<>>
  /\ now = 1
  /\ pool = PoolIdle
  /\ gate = GateIdle
  /\ val = ValIdle
  /\ mon = MonIdle
  /\ shut = ShutIdle
  /\ eng = EngIdle

MonNext ==
  \/ MonitorFind
  \/ MonitorNoPrice
  \/ MonitorCheck
  \/ MonitorAlert
  \/ MonPersist
  \/ handleReset
  \/ BulkClose
  \/ MonAdvance
  \/ StoreFlip

SpecMonitor == MonInit /\ [][MonNext]_vars

(***************************************************************************)
(* checkLongSignal / checkShortSignal on one signal and one price, with    *)
(* the stop the trailing-stop suggestion recommends.                       *)
(***************************************************************************)
\* sendTrailingStopSuggestion: newStopLoss is the entry, and entry * 1.02
\* from a profit of 4 percent on, whatever the direction
TrailingStop(sig, profit) ==
  IF profit >= 4000 THEN (sig.entry * 102) \div 100 ELSE sig.entry

\* the suggestion as sent: profit and new stop beside the fields of the alert
TrailingMessage(sig, price) ==
  LET profit == RealizedPnl(sig.type, sig.entry, price)
  IN  [kind |-> "trailing", symbol |-> sig.symbol, type |-> sig.type,
       timestamp |-> sig.timestamp, profit |-> profit,
       newStopLoss |-> TrailingStop(sig, profit)]

\* the messages of one check, the suggestion with its content
MessagesOf(sig, price, t) ==
  LET alerts == AlertsOf(sig, price, t)
  IN  [i \in DOMAIN alerts |->
         IF alerts[i].kind = "trailing" THEN TrailingMessage(sig, price)
         ELSE alerts[i]]

\* closes of the last 1m kline around the thresholds of the suggestion: a
\* move of 2.99, 3, 3.999, 4, 5.999 and 6 percent either way, and none
TrailPrices ==
  {100000, 102990, 103000, 103999, 104000, 105999, 106000,
   97010, 97000, 96001, 96000, 94001, 94000}

\* checkSignal at one of these closes, up to the return of closeSignal
TrailCheck ==
  /\ mon.mpc = "check"
  /\ \E price \in TrailPrices :
       LET sig == mon.snapshot[mon.idx]
           reason == MonitorVerdict(sig, price)
       IN  /\ IF reason # ""
              THEN store' = closeSignal(store, sig, reason,
                                        RealizedPnl(sig.type, sig.entry, price),
                                        storeUp)
              ELSE store' = store
           /\ MonitorSending([mon EXCEPT !.price = price, !.checks = @ + 1],
                             MessagesOf(sig, price, now), reason # "" /\ storeUp)
  /\ UNCHANGED <<isPolling, ticks, pc, loc, watchlist, nClients, storeUp, sent,
                 now, pool, gate, val, shut, eng>>

TrailInit ==
  /\ isPolling = FALSE
  /\ ticks = 0
  /\ pc = [t \in Threads |-> "idle"]
  /\ loc = [t \in Threads |-> InitLoc]
  /\ watchlist = <<>>
  /\ nClients = 0
  /\ now \in MonInstants
  /\ \E sig \in MonCandidates(1) :
       /\ store = SaveSignal(<<>>, sig, 1)
       /\ mon = [MonIdle EXCEPT !.mpc = "check", !.snapshot = store, !.idx = 1]
  /\ storeUp \in BOOLEAN
  /\ sent = <<>>
  /\ pool = PoolIdle
  /\ gate = GateIdle
  /\ val = ValIdle
  /\ shut = ShutIdle
  /\ eng = EngIdle

TrailNext == TrailCheck \/ MonitorAlert

SpecTrail == TrailInit /\ [][TrailNext]_vars

(***************************************************************************)
(* The price-map pass of the monitor package, CheckTPSLHits, applied to    *)
(* collections and price maps drawn from bounded sets.  The map is in      *)
(* loc[1].prices, the cursor and the notifications collected so far in     *)
(* mon; the returned notifications go to sent.  Signals are inserted and   *)
(* the store goes down and up while the pass waits on the store.           *)
(***************************************************************************)
\* UpdateOne({symbol, status: ACTIVE}, $set status, close_reason): the first
\* matching document; the error of the update is not looked at
markSignalClosed(st, symbol, reason, writeOK) ==
  LET match == {i \in DOMAIN st : st[i].symbol = symbol /\ st[i].status = "ACTIVE"}
  IN  IF ~writeOK \/ match = {} THEN st
      ELSE LET i == CHOOSE j \in match : \A k \in match : j <= k
           IN  [st EXCEPT ![i] = [@ EXCEPT !.status = "CLOSED",
                                           !.closeReason = reason]]

\* a decision that takes a missing price for the zero value of the map
TPSLHit_NoExistsTest(signal, prices) ==
  MonitorVerdict(signal, IF signal.symbol \in DOMAIN prices
                         THEN prices[signal.symbol] ELSE 0)

\* the decision on one document of the cursor: "" when its symbol is no key
\* of the price map (continue) or the price is between its levels
TPSLHit(signal, prices) ==
  IF signal.symbol \notin DOMAIN prices THEN ""
  ELSE MonitorVerdict(signal, prices[signal.symbol])

\* one iteration of the loop over the cursor, on the collection as it is
\* now: the notification of a hit is appended before its update, and the
\* update succeeds or fails (writeOK) without the loop looking at it
TPSLLoop(st, m, prices, writeOK) ==
  LET signal == m.snapshot[m.idx]
      reason == TPSLHit(signal, prices)
  IN  IF reason = ""
      THEN [store |-> st, mon |-> [m EXCEPT !.idx = @ + 1]]
      ELSE [store |-> markSignalClosed(st, signal.symbol, reason, writeOK),
            mon |-> [m EXCEPT !.idx = @ + 1,
                              !.alerts = Append(@, Alert(IF reason = "TP_HIT"
                                                         THEN "tp" ELSE "sl",
                                                         signal))]]

PassSymbols == {1, 2}

\* documents of the collection: both directions, open and already closed
PassDocs ==
  {[MonSignal(sy, "LONG", 100000, 98000, 106000, 1) EXCEPT
      !.status = stt, !.closeReason = IF stt = "CLOSED" THEN "TP_HIT" ELSE ""] :
     sy \in PassSymbols, stt \in {"ACTIVE", "CLOSED"}}
  \cup
  {[MonSignal(sy, "SHORT", 100000, 102000, 94000, 1) EXCEPT
      !.status = stt, !.closeReason = IF stt = "CLOSED" THEN "TP_HIT" ELSE ""] :
     sy \in PassSymbols, stt \in {"ACTIVE", "CLOSED"}}

PassStores ==
  UNION {{[k \in 1..n |-> [docs[k] EXCEPT !.timestamp = k, !.createdAt = k]] :
            docs \in [1..n -> PassDocs]} : n \in 0..MaxStore}

PassPrices == {94000, 100000, 103000, 106000}

\* price maps over the symbols of the collection and one symbol more
PassPriceMaps ==
  UNION {[d -> PassPrices] : d \in SUBSET (PassSymbols \cup {3})}

\* AddActiveSignal(signal): InsertOne into the collection; a store that is
\* down returns the error and inserts nothing
AddActiveSignal ==
  /\ Len(store) < MaxStore
  /\ \E d \in PassDocs :
       store' = IF storeUp
                THEN Append(store, [d EXCEPT !.timestamp = Len(store) + 1,
                                             !.createdAt = Len(store) + 1])
                ELSE store
  /\ UNCHANGED <<isPolling, ticks, pc, loc, watchlist, nClients, storeUp, sent,
                 now, pool, gate, val, mon, shut, eng>>

\* CheckTPSLHits(currentPrices), its first store call: Find({status:
\* ACTIVE}).  A failed query returns nil and the error; otherwise the cursor
\* holds the ACTIVE documents of this moment (mon.snapshot), and the calls
\* that follow see the collection as other goroutines leave it
PassFind ==
  /\ pc[1] = "idle"
  /\ IF storeUp
     THEN /\ mon' = [MonIdle EXCEPT
                       !.snapshot = SelectSeq(store, LAMBDA d : d.status = "ACTIVE"),
                       !.idx = 1]
          /\ pc' = [pc EXCEPT ![1] = "loop"]
     ELSE /\ pc' = [pc EXCEPT ![1] = "done"]
          /\ UNCHANGED mon
  /\ UNCHANGED <<isPolling, ticks, loc, watchlist, nClients, store, storeUp,
                 sent, now, pool, gate, val, shut, eng>>

\* the loop of CheckTPSLHits, one document of the cursor a step (the
\* UpdateOne of markSignalClosed is a store call of its own), and the return
\* of the notifications after the last one
PassLoop ==
  /\ pc[1] = "loop"
  /\ IF mon.idx > Len(mon.snapshot)
     THEN /\ sent' = mon.alerts
          /\ pc' = [pc EXCEPT ![1] = "done"]
          /\ UNCHANGED <<store, mon>>
     ELSE LET r == TPSLLoop(store, mon, loc[1].prices, storeUp)
          IN  /\ store' = r.store
              /\ mon' = r.mon
              /\ UNCHANGED <<pc, sent>>
  /\ UNCHANGED <<isPolling, ticks, loc, watchlist, nClients, storeUp, now, pool,
                 gate, val, shut, eng>>

PassInit ==
  /\ isPolling = FALSE
  /\ ticks = 0
  /\ pc = [t \in Threads |-> "idle"]
  /\ \E prices \in PassPriceMaps :
       loc = [t \in Threads |->
                IF t = 1 THEN [InitLoc EXCEPT !.prices = prices] ELSE InitLoc]
  /\ watchlist = <<>>
  /\ nClients = 0
  /\ store \in PassStores
  /\ storeUp \in BOOLEAN
  /\ sent = <<>>
  /\ now = 1
  /\ pool = PoolIdle
  /\ gate = GateIdle
  /\ val = ValIdle
  /\ mon = MonIdle
  /\ shut = ShutIdle
  /\ eng = EngIdle

PassNext == PassFind \/ PassLoop \/ AddActiveSignal \/ StoreFlip

SpecPass == PassInit /\ [][PassNext]_vars

(***************************************************************************)
(* The shutdown handler of main and the cycle it runs beside.  Time is in  *)
(* seconds since the termination signal.                                   *)
(***************************************************************************)
ShutdownTimeout == 30

\* the steps of the clock after the signal
ShutStep == 10

\* the stages of poll between isPolling = true and the deferred reset
CycleStages == <<"watchlist", "scan", "validate", "process">>

ShutAlive == shut.code = -1

\* the cron callback reads isPolling: it skips while the flag is set,
\* otherwise it goes on to poll
ShutTick(t) ==
  /\ ShutAlive
  /\ pc[t] = "idle"
  /\ t = ticks + 1
  /\ ticks' = ticks + 1
  /\ pc' = [pc EXCEPT ![t] = IF isPolling THEN "skipped" ELSE "ready"]
  /\ UNCHANGED <<isPolling, loc, watchlist, nClients, store, storeUp, sent, now,
                 pool, gate, val, mon, shut, eng>>

\* poll sets isPolling, a statement of its own after the read of the callback
ShutBegin(t) ==
  /\ ShutAlive
  /\ pc[t] = "ready"
  /\ isPolling' = TRUE
  /\ pc' = [pc EXCEPT ![t] = CycleStages[1]]
  /\ UNCHANGED <<ticks, loc, watchlist, nClients, store, storeUp, sent, now,
                 pool, gate, val, mon, shut, eng>>

\* the callbacks that have passed the read of isPolling and not returned
ShutInFlight == {t \in Threads : pc[t] = "ready" \/ \E k \in DOMAIN CycleStages : pc[t] = CycleStages[k]}

\* poll moves to its next stage, or returns and the deferred function
\* resets isPolling
ShutCycleStep(t) ==
  /\ ShutAlive
  /\ \E k \in DOMAIN CycleStages :
       /\ pc[t] = CycleStages[k]
       /\ IF k < Len(CycleStages)
          THEN /\ pc' = [pc EXCEPT ![t] = CycleStages[k + 1]]
               /\ UNCHANGED <<isPolling, shut>>
          ELSE /\ pc' = [pc EXCEPT ![t] = "done"]
               /\ isPolling' = FALSE
               /\ shut' = [shut EXCEPT !.pending = @ \ {t}]
  /\ UNCHANGED <<ticks, loc, watchlist, nClients, store, storeUp, sent, now,
                 pool, gate, val, mon, eng>>

\* <-sigChan, then time.NewTimer(30 * time.Second) and the goroutine that
\* waits for it
ShutSignal ==
  /\ ShutAlive
  /\ shut.hpc = "wait"
  /\ shut' = [shut EXCEPT !.hpc = "armed", !.elapsed = 0, !.pending = ShutInFlight]
  /\ UNCHANGED <<isPolling, ticks, pc, loc, watchlist, nClients, store, storeUp,
                 sent, now, pool, gate, val, mon, eng>>

\* databaseService.Close() returns: the client is disconnected
ShutClose ==
  /\ ShutAlive
  /\ shut.hpc = "armed"
  /\ storeUp' = FALSE
  /\ shut' = [shut EXCEPT !.hpc = "closed"]
  /\ UNCHANGED <<isPolling, ticks, pc, loc, watchlist, nClients, store, sent,
                 now, pool, gate, val, mon, eng>>

\* shutdownTimer.Stop(), shutdownChan <- true, os.Exit(0)
ShutExit ==
  /\ ShutAlive
  /\ shut.hpc = "closed"
  /\ shut' = [shut EXCEPT !.hpc = "exited", !.code = 0]
  /\ UNCHANGED <<isPolling, ticks, pc, loc, watchlist, nClients, store, storeUp,
                 sent, now, pool, gate, val, mon, eng>>

\* <-shutdownTimer.C before the timer is stopped: os.Exit(1)
ShutTimeout ==
  /\ ShutAlive
  /\ shut.hpc \in {"armed", "closed"}
  /\ shut.elapsed >= ShutdownTimeout
  /\ shut' = [shut EXCEPT !.hpc = "exited", !.code = 1]
  /\ UNCHANGED <<isPolling, ticks, pc, loc, watchlist, nClients, store, storeUp,
                 sent, now, pool, gate, val, mon, eng>>

\* time passes between the signal and the exit
ShutAdvance ==
  /\ ShutAlive
  /\ shut.hpc \in {"armed", "closed"}
  /\ shut.elapsed < ShutdownTimeout
  /\ shut' = [shut EXCEPT !.elapsed = @ + ShutStep]
  /\ UNCHANGED <<isPolling, ticks, pc, loc, watchlist, nClients, store, storeUp,
                 sent, now, pool, gate, val, mon, eng>>

ShutInit ==
  /\ isPolling = FALSE
  /\ ticks = 0
  /\ pc = [t \in Threads |-> "idle"]
  /\ loc = [t \in Threads |-> InitLoc]
  /\ watchlist = <<>>
  /\ nClients = 0
  /\ store = <<>>
  /\ storeUp = TRUE
  /\ sent = <<>>
  /\ now = 1
  /\ pool = PoolIdle
  /\ gate = GateIdle
  /\ val = ValIdle
  /\ mon = MonIdle
  /\ shut = ShutIdle
  /\ eng = EngIdle

ShutNext ==
  \/ \E t \in Threads : ShutTick(t) \/ ShutBegin(t) \/ ShutCycleStep(t)
  \/ ShutSignal
  \/ ShutClose
  \/ ShutExit
  \/ ShutTimeout
  \/ ShutAdvance

SpecShutdown == ShutInit /\ [][ShutNext]_vars

(***************************************************************************)
(* The signal engine: StrategyService.EvaluateSymbol from the regime       *)
(* detection on, applied to indicator values drawn from bounded sets.      *)
(* Prices are in thousandths, ADX in tenths, volume ratio in hundredths,   *)
(* percentages in thousandths of a percent.                                *)
(***************************************************************************)
\* math.Abs(price-level) / price * 100
PctDist(price, level) == (Abs(price - level) * 1000) \div (price \div 100)

\* the zero value of PivotPoints: fewer than two daily candles
NoPivots ==
  [Pivot |-> 0, R1 |-> 0, R2 |-> 0, R3 |-> 0, S1 |-> 0, S2 |-> 0, S3 |-> 0]

CalculateStandardPivots(high, low, close) ==
  LET pivot == (high + low + close) \div 3
  IN  [Pivot |-> pivot,
       R1 |-> 2 * pivot - low,
       R2 |-> pivot + (high - low),
       R3 |-> high + 2 * (pivot - low),
       S1 |-> 2 * pivot - high,
       S2 |-> pivot - (high - low),
       S3 |-> low - 2 * (high - pivot)]

\* the level with the least absolute difference to the price
NearestOf(price, levels) ==
  CHOOSE l \in levels : \A m \in levels : Abs(price - l) <= Abs(price - m)

FindNearestPivotLevel(price, pivots) ==
  NearestOf(price, {pivots.Pivot, pivots.R1, pivots.R2, pivots.R3,
                    pivots.S1, pivots.S2, pivots.S3})

PivotNames == {"R3", "R2", "R1", "Pivot", "S1", "S2", "S3"}

PivotLevel(pivots, name) ==
  CASE name = "R3" -> pivots.R3 [] name = "R2" -> pivots.R2
    [] name = "R1" -> pivots.R1 [] name = "Pivot" -> pivots.Pivot
    [] name = "S1" -> pivots.S1 [] name = "S2" -> pivots.S2
    [] OTHER -> pivots.S3

\* minDiff := 999999.0, in thousandths
MinDiffStart == 999999000

\* the names FindNearestPivotLevel can return: the loop ranges over a map,
\* whose order of iteration changes from one run to the next, and keeps the
\* first level whose distance is below every earlier one, so each level at
\* the least distance is returned under some order
NearestPivotNames(price, pivots) ==
  LET diff(n) == Abs(price - PivotLevel(pivots, n))
      least == {n \in PivotNames :
                  /\ diff(n) < MinDiffStart
                  /\ \A m \in PivotNames : diff(n) <= diff(m)}
  IN  IF least = {} THEN {""} ELSE least

\* retracement levels of a swing; the factors are 0.236 ... 0.786
CalculateRetracements(high, low, trend) ==
  LET diff == high - low
  IN  IF trend = "UP"
      THEN [Level0 |-> high,
            Level236 |-> high - (diff * 236) \div 1000,
            Level382 |-> high - (diff * 382) \div 1000,
            Level500 |-> high - (diff * 500) \div 1000,
            Level618 |-> high - (diff * 618) \div 1000,
            Level786 |-> high - (diff * 786) \div 1000,
            Level100 |-> low]
      ELSE [Level0 |-> low,
            Level236 |-> low + (diff * 236) \div 1000,
            Level382 |-> low + (diff * 382) \div 1000,
            Level500 |-> low + (diff * 500) \div 1000,
            Level618 |-> low + (diff * 618) \div 1000,
            Level786 |-> low + (diff * 786) \div 1000,
            Level100 |-> high]

FindNearestFibLevel(price, fibs) ==
  NearestOf(price, {fibs.Level0, fibs.Level236, fibs.Level382, fibs.Level500,
                    fibs.Level618, fibs.Level786, fibs.Level100})

\* minimum percent distance to a level that is not zero, 100 without one
MinDist(price, levels) ==
  LET ds == {PctDist(price, l) : l \in levels \ {0}} \cup {100000}
  IN  CHOOSE d \in ds : \A e \in ds : d <= e

getPivotDistance(price, pivots) ==
  MinDist(price, {pivots.Pivot, pivots.R1, pivots.R2, pivots.R3,
                  pivots.S1, pivots.S2, pivots.S3})

getFibDistance(price, fibs) ==
  MinDist(price, {fibs.Level236, fibs.Level382, fibs.Level500, fibs.Level618,
                  fibs.Level786})

\* the loop of getNextResistance / getNextSupport over the levels in order
RECURSIVE NextLevel(_, _, _, _)
NextLevel(price, levels, next, above) ==
  IF levels = <<>> THEN next
  ELSE LET level == Head(levels)
           take == IF above THEN level > price /\ level < next
                   ELSE level < price /\ level > next
       IN  NextLevel(price, Tail(levels), IF take THEN level ELSE next, above)

\* next resistance above the price, price * 1.10 without one
getNextResistance(price, pivots) ==
  NextLevel(price, <<pivots.Pivot, pivots.R1, pivots.R2, pivots.R3>>,
            (price * 110) \div 100, TRUE)

\* next support below the price, price * 0.90 without one
getNextSupport(price, pivots) ==
  NextLevel(price, <<pivots.Pivot, pivots.S1, pivots.S2, pivots.S3>>,
            (price * 90) \div 100, FALSE)

\* a regime that looks at the 1h ADX alone
detectRegimePro_OneHorizon(adx1h, adx15m, price, ema50) ==
  IF adx1h < 200 THEN "CHOPPY"
  ELSE IF adx1h < 250 THEN "RANGING"
  ELSE IF price > ema50 THEN "TRENDING_UP"
  ELSE "TRENDING_DOWN"

\* avgADX := (adx1h + adx15m) / 2 against 20 and 25
detectRegimePro(adx1h, adx15m, price, ema50) ==
  IF adx1h + adx15m < 400 THEN "CHOPPY"
  ELSE IF adx1h + adx15m < 500 THEN "RANGING"
  ELSE IF price > ema50 THEN "TRENDING_UP"
  ELSE "TRENDING_DOWN"

determineSignalDirection(regime, price, ema50, rsi4h) ==
  IF regime = "TRENDING_UP" /\ price > ema50 /\ rsi4h < 70 THEN "LONG"
  ELSE IF regime = "TRENDING_DOWN" /\ price < ema50 /\ rsi4h > 30 THEN "SHORT"
  ELSE ""

Clamp(score) == IF score < 0 THEN 0 ELSE IF score > 100 THEN 100 ELSE score

\* the quotient 0 / 0 of floating point, which no comparison holds of
NaN == -1

\* volRatio := currentVol / avgVol in hundredths; the volumes are not
\* negative, so the average of a window is 0 only when its last one is 0
VolRatio(in) ==
  IF in.vol[2] = 0 THEN NaN ELSE (in.vol[1] * 100) \div in.vol[2]

\* x >= c and x < c on floating point
FGeq(x, c) == x # NaN /\ x >= c

FLt(x, c) == x # NaN /\ x < c

\* a score that gives the volume profile nothing
calculateConfluenceScore_NoPOC(direction, in, pivots, fibs) ==
  LET long == direction = "LONG"
      short == direction = "SHORT"
      trend == IF in.adx1h > 250 /\ in.adx15m > 250 THEN 20
               ELSE IF in.adx1h > 250 \/ in.adx15m > 250 THEN 10 ELSE 0
      rsi == IF long
             THEN IF in.rsi15m < 45 /\ in.rsi15m > 30 THEN 25
                  ELSE IF in.rsi15m < 60 /\ in.rsi1h < 70 THEN 15 ELSE 0
             ELSE IF in.rsi15m > 55 /\ in.rsi15m < 70 THEN 25
                  ELSE IF in.rsi15m > 40 /\ in.rsi1h > 30 THEN 15 ELSE 0
      pivotDist == getPivotDistance(in.price, pivots)
      fibDist == getFibDistance(in.price, fibs)
      level == IF pivotDist <= 1500 \/ fibDist <= 1500 THEN 15
               ELSE IF pivotDist <= 2500 \/ fibDist <= 2500 THEN 8 ELSE 0
      volume == IF FGeq(VolRatio(in), 150) THEN 10
                ELSE IF FGeq(VolRatio(in), 120) THEN 5 ELSE 0
      flow == IF (long /\ in.orderFlow > 0) \/ (short /\ in.orderFlow < 0)
              THEN 5 ELSE 0
      macd == IF (long /\ in.histogram > 0) \/ (short /\ in.histogram < 0)
              THEN 5 ELSE 0
      ob == IF in.obType # "" /\ ((long /\ in.obType = "BULLISH")
                                  \/ (short /\ in.obType = "BEARISH"))
            THEN 5 ELSE 0
      fvg == IF in.fvgType # "" /\ ((long /\ in.fvgType = "BULLISH")
                                    \/ (short /\ in.fvgType = "BEARISH"))
             THEN 5 ELSE 0
      btc == IF in.btcTrend = "" THEN 0
             ELSE IF (long /\ in.btcTrend = "UP") \/ (short /\ in.btcTrend = "DOWN")
                  THEN 5 ELSE -10
      penalty == IF FLt(VolRatio(in), 80) THEN -10 ELSE 0
  IN  Clamp(trend + rsi + level + volume + flow + macd + ob + fvg + btc
            + penalty)

\* calculateConfluenceScore: the nine weighted parts, the low-volume
\* penalty and the clamp to 0..100
calculateConfluenceScore(direction, in, pivots, fibs) ==
  LET long == direction = "LONG"
      short == direction = "SHORT"
      trend == IF in.adx1h > 250 /\ in.adx15m > 250 THEN 20
               ELSE IF in.adx1h > 250 \/ in.adx15m > 250 THEN 10 ELSE 0
      rsi == IF long
             THEN IF in.rsi15m < 45 /\ in.rsi15m > 30 THEN 25
                  ELSE IF in.rsi15m < 60 /\ in.rsi1h < 70 THEN 15 ELSE 0
             ELSE IF in.rsi15m > 55 /\ in.rsi15m < 70 THEN 25
                  ELSE IF in.rsi15m > 40 /\ in.rsi1h > 30 THEN 15 ELSE 0
      pivotDist == getPivotDistance(in.price, pivots)
      fibDist == getFibDistance(in.price, fibs)
      level == IF pivotDist <= 1500 \/ fibDist <= 1500 THEN 15
               ELSE IF pivotDist <= 2500 \/ fibDist <= 2500 THEN 8 ELSE 0
      volume == IF FGeq(VolRatio(in), 150) THEN 10
                ELSE IF FGeq(VolRatio(in), 120) THEN 5 ELSE 0
      flow == IF (long /\ in.orderFlow > 0) \/ (short /\ in.orderFlow < 0)
              THEN 5 ELSE 0
      macd == IF (long /\ in.histogram > 0) \/ (short /\ in.histogram < 0)
              THEN 5 ELSE 0
      ob == IF in.obType # "" /\ ((long /\ in.obType = "BULLISH")
                                  \/ (short /\ in.obType = "BEARISH"))
            THEN 5 ELSE 0
      fvg == IF in.fvgType # "" /\ ((long /\ in.fvgType = "BULLISH")
                                    \/ (short /\ in.fvgType = "BEARISH"))
             THEN 5 ELSE 0
      poc == IF in.pocDist <= 2000 THEN 5 ELSE 0
      btc == IF in.btcTrend = "" THEN 0
             ELSE IF (long /\ in.btcTrend = "UP") \/ (short /\ in.btcTrend = "DOWN")
                  THEN 5 ELSE -10
      penalty == IF FLt(VolRatio(in), 80) THEN -10 ELSE 0
  IN  Clamp(trend + rsi + level + volume + flow + macd + ob + fvg + poc + btc
            + penalty)

\* slPercent, tp1Percent, tp2Percent for the ATR percent of the 1h series
Band(atrPercent) ==
  IF atrPercent > 3000 THEN [sl |-> 3000, tp1 |-> 4500, tp2 |-> 9000]
  ELSE IF atrPercent < 1000 THEN [sl |-> 1500, tp1 |-> 2250, tp2 |-> 4500]
  ELSE [sl |-> 2000, tp1 |-> 3000, tp2 |-> 6000]

\* currentPrice * (1 + percent) and currentPrice * (1 - percent)
Up(price, pct) == price + (price * pct) \div 100000

Down(price, pct) == price - (price * pct) \div 100000

\* stop and targets that are laid out for a LONG whatever the direction
Levels_LongOnly(direction, price, atrPercent, pivots) ==
  LET b == Band(atrPercent)
      tp2 == Up(price, b.tp2)
      tpPivot == getNextResistance(price, pivots)
  IN  [sl |-> Down(price, b.sl), tp1 |-> Up(price, b.tp1),
       tp2 |-> IF tpPivot > tp2 /\ tpPivot < (price * 115) \div 100
               THEN tpPivot ELSE tp2]

\* stop and targets of step 8, TP2 after the pivot adjustment
Levels(direction, price, atrPercent, pivots) ==
  LET b == Band(atrPercent)
  IN  IF direction = "LONG"
      THEN LET tp2 == Up(price, b.tp2)
               tpPivot == getNextResistance(price, pivots)
           IN  [sl |-> Down(price, b.sl), tp1 |-> Up(price, b.tp1),
                tp2 |-> IF tpPivot > tp2 /\ tpPivot < (price * 115) \div 100
                        THEN tpPivot ELSE tp2]
      ELSE LET tp2 == Down(price, b.tp2)
               tpPivot == getNextSupport(price, pivots)
           IN  [sl |-> Up(price, b.sl), tp1 |-> Down(price, b.tp1),
                tp2 |-> IF tpPivot < tp2 /\ tpPivot > (price * 85) \div 100
                        THEN tpPivot ELSE tp2]

\* a ratio that divides by a risk of zero: +Inf in floating point
CalculateRiskReward_NoZeroTest(entryPrice, stopLoss, takeProfit) ==
  LET risk == Abs(entryPrice - stopLoss)
      reward == Abs(takeProfit - entryPrice)
  IN  IF risk = 0 THEN 1000000000 ELSE (reward * 1000) \div risk

\* CalculateRiskReward(...).Ratio in thousandths
CalculateRiskReward(entryPrice, stopLoss, takeProfit) ==
  LET risk == Abs(entryPrice - stopLoss)
      reward == Abs(takeProfit - entryPrice)
  IN  IF risk = 0 THEN 0 ELSE (reward * 1000) \div risk

\* steps 9 and 10: the risk gate on TP2 and the assembly of the signal
RiskGate(c) ==
  LET ratio == CalculateRiskReward(c.entry, c.sl, c.tp2)
  IN  IF ratio < 2000 THEN NoEngineSignal
      ELSE [type |-> c.type, tier |-> c.tier, entry |-> c.entry, sl |-> c.sl,
            tp1 |-> c.tp1, tp2 |-> c.tp2, rr |-> ratio, score |-> c.score,
            regime |-> c.regime]

\* what the evaluation derives from the candles before the regime
PivotsOf(in) ==
  IF in.day = <<>> THEN NoPivots
  ELSE CalculateStandardPivots(in.day[1], in.day[2], in.day[3])

FibsOf(in) ==
  CalculateRetracements(in.swing[1], in.swing[2],
                        IF in.price < in.ema50 THEN "DOWN" ELSE "UP")

\* EvaluateSymbol from step 4 on
EvaluateSymbol(in) ==
  LET pivots == PivotsOf(in)
      fibs == FibsOf(in)
      regime == detectRegimePro(in.adx1h, in.adx15m, in.price, in.ema50)
      dir == determineSignalDirection(regime, in.price, in.ema50, in.rsi4h)
      score == calculateConfluenceScore(dir, in, pivots, fibs)
      pivotProximity == PctDist(in.price, FindNearestPivotLevel(in.price, pivots))
      fibProximity == PctDist(in.price, FindNearestFibLevel(in.price, fibs))
      nearKeyLevel == pivotProximity <= 2000 \/ fibProximity <= 2000
      l == Levels(dir, in.price, in.atrPercent, pivots)
  IN  IF regime = "CHOPPY" THEN NoEngineSignal
      ELSE IF dir = "" THEN NoEngineSignal
      ELSE IF score < ScoreGate THEN NoEngineSignal
      ELSE IF ~nearKeyLevel /\ score < 90 THEN NoEngineSignal
      ELSE RiskGate([type |-> dir,
                     tier |-> IF score >= 90 THEN "PREMIUM" ELSE "STANDARD",
                     entry |-> in.price, sl |-> l.sl, tp1 |-> l.tp1,
                     tp2 |-> l.tp2, score |-> score, regime |-> regime])

\* the previous daily candle (high, low, close), none with <<>>
EngineDays ==
  {<<>>, <<102000, 96000, 99000>>, <<100900, 100900, 100900>>,
   <<108000, 108000, 108000>>,
   <<112000, 112000, 112000>>, <<120000, 120000, 120000>>,
   <<92000, 92000, 92000>>}

\* the 4h swing (high, low): around the price and far above it
EngineSwings == {<<105000, 95000>>, <<130000, 120000>>}

\* the last volume of the 5m window and the average of the window: a busy
\* candle, a quiet one, a window without any trade
EngineVolumes == {<<170, 100>>, <<70, 100>>, <<0, 0>>}

\* 1h and 15m ADX: both strong, average below 20, average below 25, one
\* strong with an average of 25
EngineADX == {<<280, 270>>, <<280, 100>>, <<260, 230>>, <<300, 200>>}

EngineInputs ==
  [price : {100000}, ema50 : {99000, 101000}, rsi4h : {50, 75}, rsi1h : {50},
   rsi15m : {38, 65}, adx1h : {280, 260, 300}, adx15m : {270, 100, 230, 200},
   histogram : {-1, 1}, vol : EngineVolumes, orderFlow : {-1, 1},
   day : EngineDays, swing : EngineSwings, btcTrend : {"", "UP", "DOWN"},
   obType : {"", "BULLISH", "BEARISH"}, fvgType : {"", "BULLISH"},
   pocDist : {1200, 3000}, atrPercent : {500, 2000, 3500}]

\* candidates at the risk gate: sound ones, a target too near, a stop on
\* the entry
GateCandidates ==
  {[type |-> "LONG", tier |-> "STANDARD", entry |-> 100000, sl |-> sl,
    tp1 |-> 103000, tp2 |-> tp2, score |-> 75, regime |-> "TRENDING_UP"] :
     sl \in {98000, 100000}, tp2 \in {103900, 104000, 106000}}
  \cup
  {[type |-> "SHORT", tier |-> "STANDARD", entry |-> 100000, sl |-> sl,
    tp1 |-> 97000, tp2 |-> tp2, score |-> 75, regime |-> "TRENDING_DOWN"] :
     sl \in {102000, 100000}, tp2 \in {96100, 96000, 94000}}

\* one evaluation of a symbol
EngineEvaluate ==
  /\ eng.epc = "in"
  /\ LET signal == EvaluateSymbol(eng.in)
         names == IF signal = NoEngineSignal THEN {""}
                  ELSE NearestPivotNames(eng.in.price, PivotsOf(eng.in))
     IN  \E name \in names :
           eng' = [eng EXCEPT !.epc = "out", !.out = signal,
                              !.pivotName = name]
  /\ UNCHANGED <<isPolling, ticks, pc, loc, watchlist, nClients, store, storeUp,
                 sent, now, pool, gate, val, mon, shut>>

\* the risk gate applied to a candidate
EngineRiskGate ==
  /\ eng.epc = "gate"
  /\ eng' = [eng EXCEPT !.epc = "gated", !.out = RiskGate(eng.cand)]
  /\ UNCHANGED <<isPolling, ticks, pc, loc, watchlist, nClients, store, storeUp,
                 sent, now, pool, gate, val, mon, shut>>

EngineInit ==
  /\ isPolling = FALSE
  /\ ticks = 0
  /\ pc = [t \in Threads |-> "idle"]
  /\ loc = [t \in Threads |-> InitLoc]
  /\ watchlist = <<>>
  /\ nClients = 0
  /\ store = <<>>
  /\ storeUp = TRUE
  /\ sent = <<>>
  /\ now = 1
  /\ pool = PoolIdle
  /\ gate = GateIdle
  /\ val = ValIdle
  /\ mon = MonIdle
  /\ shut = ShutIdle
  /\ \/ \E in \in EngineInputs :
          /\ <<in.adx1h, in.adx15m>> \in EngineADX
          /\ eng = [EngIdle EXCEPT !.epc = "in", !.in = in]
     \/ \E c \in GateCandidates :
          eng = [EngIdle EXCEPT !.epc = "gate", !.cand = c]

EngineNext ==
  \/ EngineEvaluate
  \/ EngineRiskGate

SpecEngine == EngineInit /\ [][EngineNext]_vars

(***************************************************************************)
(* The loop of poll() over the validated signals, from the batches and the *)
(* verdicts it can be handed.                                              *)
(***************************************************************************)
\* validForAI: one signal, or one of symbol 1 followed by one of symbol 2
ProcessBatches ==
  {<<c>> : c \in Candidates(1)}
  \cup {<<c, d>> : c \in Candidates(1), d \in Candidates(2)}

\* verdicts of the validator: at the score gate and above it
ProcessVerdicts ==
  {[score |-> sc, confidence |-> 80, tier |-> "STANDARD", reason |-> "ok"] :
     sc \in {ScoreGate, 85}}

\* aiResults: as many verdicts as signals, or fewer
ProcessResults(n) ==
  {<<>>} \cup {<<v>> : v \in ProcessVerdicts}
  \cup (IF n < 2 THEN {}
        ELSE {<<v, w>> : v \in ProcessVerdicts, w \in ProcessVerdicts})

ProcessInit ==
  /\ isPolling = TRUE
  /\ ticks = 1
  /\ pc = [t \in Threads |-> IF t = 1 THEN "process" ELSE "idle"]
  /\ \E batch \in ProcessBatches : \E results \in ProcessResults(Len(batch)) :
       loc = [t \in Threads |->
                IF t = 1
                THEN [InitLoc EXCEPT !.validForAI = batch,
                                     !.aiResults = results, !.idx = 1]
                ELSE InitLoc]
  /\ watchlist = <<1, 2>>
  /\ nClients = 1
  /\ store = <<>>
  /\ storeUp \in BOOLEAN
  /\ sent = <<>>
  /\ now = 1
  /\ pool = PoolIdle
  /\ gate = GateIdle
  /\ val = ValIdle
  /\ mon = MonIdle
  /\ shut = ShutIdle
  /\ eng = EngIdle

ProcessNext ==
  \/ PollProcess(1)
  \/ PollSend(1)
  \/ StoreFlip

SpecProcess == ProcessInit /\ [][ProcessNext]_vars

(***************************************************************************)
(* One cycle of poll() over a watchlist of two symbols, from GetWatchlist  *)
(* on, with signals of earlier cycles in the store: 90, 240 or 241 minutes *)
(* old.  The store goes down and up while the cycle runs.                  *)
(***************************************************************************)
\* the signal of a symbol as an earlier cycle saved it at the first instant
StoredSignal(symbol) ==
  SaveSignal(<<>>, MergeVerdict(NewSignal(symbol, "LONG", 100000, 98000, 106000, 71),
                                [score |-> 85, tier |-> "STANDARD"]), 1)[1]

\* no signal, a signal of one of the two symbols, or one of each
CooldownStores ==
  {<<>>, <<StoredSignal(1)>>, <<StoredSignal(2)>>,
   <<StoredSignal(1), StoredSignal(2)>>}

CooldownInit ==
  /\ isPolling = TRUE
  /\ ticks = 1
  /\ pc = [t \in Threads |-> IF t = 1 THEN "watchlist" ELSE "idle"]
  /\ loc = [t \in Threads |-> InitLoc]
  /\ watchlist = <<1, 2>>
  /\ nClients \in 0..MaxClients
  /\ store \in CooldownStores
  /\ storeUp \in BOOLEAN
  /\ sent = <<>>
  /\ now \in Instants \ {1}
  /\ pool = PoolIdle
  /\ gate = GateIdle
  /\ val = ValIdle
  /\ mon = MonIdle
  /\ shut = ShutIdle
  /\ eng = EngIdle

CooldownNext ==
  \/ PollWatchlist(1)
  \/ PollScan(1)
  \/ PollMonitor(1)
  \/ PollCooldown(1)
  \/ PollValidate(1)
  \/ PollProcess(1)
  \/ PollSend(1)
  \/ StoreFlip

SpecCooldown == CooldownInit /\ [][CooldownNext]_vars

(***************************************************************************)
(* Properties of the scheduler and the worker pool.                        *)
(***************************************************************************)

\* C1: at most one scan cycle is in flight at any time, whatever the
\* interleaving of the tick callbacks and the steps of poll().
C1_AtMostOneCycle == Cardinality({t \in Threads : InCycle(t)}) <= 1

\* C2: a tick whose callback finds the in-cycle flag set is dropped: the
\* callback ends there, nothing is written to the store, nothing is sent,
\* the flag and the running cycle are left alone, and a dropped tick never
\* runs later (it is skipped, not queued).
C2_TickDropped ==
  [][\A t \in Threads :
       /\ (pc[t] = "idle" /\ pc'[t] # "idle" /\ isPolling) =>
            /\ pc'[t] = "skipped"
            /\ store' = store /\ sent' = sent
            /\ isPolling' = isPolling /\ loc' = loc
            /\ \A u \in Threads \ {t} : pc'[u] = pc[u]
       /\ (pc[t] = "skipped" => pc'[t] = "skipped")]_vars

\* a tick was dropped while the cycle that set the flag is still running
C2_Witness ==
  \E t, u \in Threads : pc[t] = "skipped" /\ InCycle(u) /\ isPolling

PoolProducerCanStep ==
  \/ pool.ppc = "adding" /\ pool.added < Len(pool.outs) /\ Len(pool.jobs) < JobsCap
  \/ pool.ppc = "adding" /\ pool.added = Len(pool.outs)
  \/ pool.ppc = "wgwait" /\ pool.wg = 0

PoolWorkerCanStep(w) ==
  \/ pool.wpc[w] = "recv" /\ (Len(pool.jobs) > 0 \/ pool.jobsClosed)
  \/ pool.wpc[w] = "eval"
  \/ pool.wpc[w] = "send" /\ Len(pool.results) < ResultsCap

\* C3: for any number of enqueued symbols the pool never deadlocks: until
\* Wait() has returned, the producer or some worker can take a step, and
\* when Wait() returns every enqueued job has been processed.
C3_PoolNeverDeadlocks ==
  /\ pool.ppc \in {"adding", "wgwait"} =>
       (PoolProducerCanStep \/ \E w \in Workers : PoolWorkerCanStep(w))
  /\ pool.ppc = "returned" =>
       /\ pool.added = Len(pool.outs)
       /\ pool.jobs = <<>>
       /\ \A w \in Workers : pool.wpc[w] = "done"

\* C4: a panic in one job is recovered inside the job closure: the worker
\* that ran it is back at the receive of its loop without having left the
\* wait group, no other worker and neither channel is touched, and
\* afterwards Wait() returns with every job consumed.
C4_PanicRecovered ==
  /\ [][\A w \in Workers :
          (/\ pool.wpc[w] = "eval"
           /\ pool.outs[pool.wjob[w]].kind = "panic"
           /\ pool'.wpc[w] # "eval") =>
            /\ pool'.wpc[w] = "recv"
            /\ pool'.wg = pool.wg
            /\ pool'.jobs = pool.jobs /\ pool'.results = pool.results
            /\ \A v \in Workers \ {w} :
                 pool'.wpc[v] = pool.wpc[v] /\ pool'.wjob[v] = pool.wjob[v]]_vars
  /\ (pool.panics > 0) ~>
       (pool.ppc = "returned" /\ pool.jobs = <<>> /\ pool.added = Len(pool.outs))

\* a single worker recovered a panic, then processed a later job whose
\* price Wait() returned
C4_Witness ==
  /\ pool.ppc = "returned"
  /\ pool.panics > 0
  /\ Len(pool.wpc) = 1
  /\ \E i, j \in DOMAIN pool.outs :
       /\ i < j
       /\ pool.outs[i].kind = "panic"
       /\ pool.outs[j].kind = "ok"
       /\ j \in DOMAIN pool.prices

\* C5: any two ACTIVE signals of the same symbol and direction have entry
\* prices more than 1.5% apart (relative to the smaller one).
C5_ActiveSignalsApart ==
  \A i, j \in DOMAIN store :
    (/\ i < j
     /\ store[i].status = "ACTIVE" /\ store[j].status = "ACTIVE"
     /\ store[i].symbol = store[j].symbol
     /\ store[i].type = store[j].type) =>
       LET lo == IF store[i].entry < store[j].entry
                 THEN store[i].entry ELSE store[j].entry
       IN  Abs(store[i].entry - store[j].entry) * 1000 > 15 * lo

(***************************************************************************)
(* Properties of the gates, the score filter and the validator.            *)
(***************************************************************************)

\* some stored signal of the symbol (any status, any direction) is less
\* than 4 hours old
HotSymbol(symbol) ==
  \E i \in DOMAIN store :
    store[i].symbol = symbol /\ now - store[i].createdAt < CooldownMinutes

StoredWithin4h ==
  \E i, j \in DOMAIN store :
    /\ i < j
    /\ store[i].symbol = store[j].symbol
    /\ Abs(store[j].createdAt - store[i].createdAt) < CooldownMinutes

\* the signal is in the batch
InBatch(signal, batch) == \E m \in DOMAIN batch : batch[m] = signal

\* C6 as stated: the cooldown check of a candidate drops it when its symbol
\* has a stored signal less than 4 hours old and keeps it otherwise, only
\* candidates that were kept are validated, persisted and notified, and no
\* two signals of one symbol are stored within 4 hours of each other.
C6_CooldownAsStated ==
  [][/\ \A t \in Threads :
          (pc[t] = "cooldown" /\ loc'[t] # loc[t]) =>
            LET c == Head(loc[t].signals)
            IN  IF HotSymbol(c.symbol)
                THEN ~InBatch(c, loc'[t].validForAI)
                ELSE InBatch(c, loc'[t].validForAI)
     /\ ~StoredWithin4h']_vars

\* C6 (amended): when the read of the store succeeds, the cooldown check
\* drops a candidate whose symbol has a stored signal less than 4 hours old
\* at the time of the check: the candidate is not in the batch handed to
\* the validator, and the cycle persists and notifies only signals of that
\* batch, so the candidate is neither validated, persisted nor notified,
\* whatever happens to the other candidates of the cycle.  A candidate
\* passes when its symbol has no stored signal, when the most recent one is
\* at least 4 hours old, or when the read fails.
C6_CooldownGate ==
  [][\A t \in Threads :
       /\ (pc[t] = "cooldown" /\ loc'[t] # loc[t]) =>
            LET c == Head(loc[t].signals)
            IN  IF storeUp /\ HotSymbol(c.symbol)
                THEN /\ ~InBatch(c, loc'[t].validForAI)
                     /\ pc'[t] # "done" => loc'[t].validForAI = loc[t].validForAI
                ELSE /\ pc'[t] # "done"
                     /\ loc'[t].validForAI = Append(loc[t].validForAI, c)
       /\ (pc[t] \in {"validate", "process", "send"} /\ pc'[t] # "done") =>
            loc'[t].validForAI = loc[t].validForAI
       /\ (pc[t] = "process" /\ pc'[t] = "send") =>
            \E m \in DOMAIN loc[t].validForAI :
              /\ Len(store') = Len(store) + 1
              /\ store'[Len(store')].symbol = loc[t].validForAI[m].symbol
              /\ store'[Len(store')].createdAt = now
       /\ (pc[t] = "send" /\ pc'[t] # "send" /\ sent' # sent) =>
            \E m \in DOMAIN loc[t].validForAI :
              /\ Len(sent') = Len(sent) + 1
              /\ sent'[Len(sent')].kind = "signal"
              /\ sent'[Len(sent')].symbol = loc[t].validForAI[m].symbol]_vars

\* both symbols had a candidate; the one of symbol 1, whose stored signal is
\* 90 minutes old, was dropped, and the one of symbol 2 beside it was
\* validated and persisted and is about to be notified
C6_Witness ==
  /\ pc[1] = "send"
  /\ now = 91
  /\ DOMAIN loc[1].prices = {1, 2}
  /\ loc[1].prices[1] = 100000 /\ loc[1].prices[2] = 100000
  /\ Len(loc[1].validForAI) = 1 /\ loc[1].validForAI[1].symbol = 2
  /\ Len(store) = 2
  /\ store[1] = StoredSignal(1)
  /\ store[2].symbol = 2 /\ store[2].createdAt = 91

\* the most recent ACTIVE signal of the symbol and direction
LatestActive(symbol, type, i) ==
  /\ i \in DOMAIN store
  /\ store[i].symbol = symbol /\ store[i].type = type
  /\ store[i].status = "ACTIVE"
  /\ \A j \in DOMAIN store :
       (store[j].symbol = symbol /\ store[j].type = type
        /\ store[j].status = "ACTIVE") => store[j].createdAt <= store[i].createdAt

\* C7: CheckDuplicateActiveSignal suppresses exactly when the most recent
\* ACTIVE signal of the same symbol and direction is found and the new
\* entry is within 1.5% of its entry (|existing - new| / existing * 100
\* <= 1.5); against an existing entry of 100.000, 101.600 is admitted and
\* 101.400 is suppressed.
C7_DuplicateExactly ==
  gate.fn = "CheckDuplicateActiveSignal" =>
    /\ gate.suppress <=>
         /\ storeUp
         /\ \E i \in DOMAIN store :
              /\ LatestActive(gate.symbol, gate.type, i)
              /\ 200 * Abs(store[i].entry - gate.entry) <= 3 * store[i].entry
    /\ \A i \in DOMAIN store :
         (storeUp /\ LatestActive(gate.symbol, gate.type, i)
          /\ store[i].entry = 100000) =>
           /\ gate.entry = 101600 => ~gate.suppress
           /\ gate.entry = 101400 => gate.suppress

\* 101.400 was suppressed against the most recent ACTIVE entry of 100.000
\* while an older signal of the same symbol and direction sits at 103.000
C7_Witness ==
  /\ gate.fn = "CheckDuplicateActiveSignal" /\ gate.suppress
  /\ gate.entry = 101400
  /\ Len(store) = 2
  /\ LatestActive(gate.symbol, gate.type, 2)
  /\ store[2].entry = 100000
  /\ store[1].entry = 103000 /\ store[1].type = gate.type
  /\ store[1].symbol = gate.symbol

\* C8: a call of the cooldown or of the active-duplicate predicate leaves
\* the store (and the notifier) untouched, and when the read of the store
\* fails its answer is "do not suppress".
C8_ReadOnlyFailOpen ==
  [][gate' # gate =>
       /\ store' = store /\ sent' = sent
       /\ gate'.fn \in {"CheckCooldown", "CheckDuplicateActiveSignal"}
       /\ gate'.readOK = storeUp
       /\ ~storeUp => ~gate'.suppress]_vars

\* the cooldown predicate admitted a symbol on a failed read although its
\* stored signal is 90 minutes old
C8_Witness ==
  /\ gate.fn = "CheckCooldown" /\ ~gate.readOK /\ ~gate.suppress
  /\ ~storeUp
  /\ now = 91
  /\ HotSymbol(gate.symbol)

\* C9: every signal in the store and every signal notice sent carries a
\* validator score above 70 and a confluence score above 70.
C9_ScoresAboveGate ==
  /\ \A i \in DOMAIN store :
       store[i].aiScore > 70 /\ store[i].confl > 70
  /\ \A k \in DOMAIN sent :
       sent[k].kind = "signal" => (sent[k].aiScore > 70 /\ sent[k].confl > 70)

\* a signal was persisted and notified
C9_Witness ==
  /\ Len(store) > 0
  /\ \E k \in DOMAIN sent : sent[k].kind = "signal"
  /\ \E t \in Threads : pc[t] = "done"

\* C10: with at least one credential configured, batch validation always
\* hands verdicts to the scheduler, default verdicts when every model and
\* credential failed, and the cycle goes on to process its candidates.
C10_TerminalFailureDefaults ==
  [][\A t \in Threads :
       (pc[t] = "validate" /\ nClients > 0 /\ pc'[t] # "validate") =>
         /\ pc'[t] = "process"
         /\ Len(loc'[t].aiResults) = Len(loc[t].validForAI)]_vars

(***************************************************************************)
(* Properties of the validator adapter.                                    *)
(***************************************************************************)

\* C11: the first request goes to the first model with the first
\* credential; after a rate-limit / invalid-key failure the next request
\* goes to the next credential of the same model, while the pool has one;
\* after any other failure, or such a failure on the last credential, it
\* goes to the next model with the first credential; models are only ever
\* tried in list order; a successful response ends the call: no request
\* follows it.
C11_CascadeOrder ==
  [][/\ (val.vpc = "idle" /\ val'.vpc = "call") => (val'.mi = 1 /\ val'.ci = 1)
     /\ (val.vpc = "call" /\ val'.last = "rotate" /\ val.ci < nClients) =>
          (val'.vpc = "call" /\ val'.mi = val.mi /\ val'.ci = val.ci + 1)
     /\ (val.vpc = "call" /\ val'.vpc = "call"
         /\ (val'.last = "fatal" \/ val.ci = nClients)) =>
          (val'.mi = val.mi + 1 /\ val'.ci = 1)
     /\ (val.vpc = "call" /\ val'.vpc = "done" /\ val'.out.err) =>
          (val.mi = NumModels /\ val'.last \in CallFailures
           /\ (val'.last = "fatal" \/ val.ci = nClients))
     /\ (val.vpc = "call" /\ val'.last \in {"parsed", "unparseable"}) =>
          (val'.vpc = "done" /\ ~val'.out.err)
     /\ val.vpc = "done" => val' = val]_vars

\* the second credential of the second model answered, after a rate limit
\* on its first credential
C11_Witness ==
  /\ val.vpc = "done" /\ val.last = "parsed"
  /\ val.mi = 2 /\ val.ci = 2 /\ nClients = 2

\* the entries of the response that judge candidate i
EntriesAbout(resp, i) == {k \in DOMAIN resp : resp[k].signal = i}

\* C12: a parsed response yields one verdict per candidate, in input order:
\* as many verdicts as candidates, and verdict i carries the judgement the
\* response gives for candidate i, whatever the number and the order of the
\* entries of the response.
C12_VerdictPerCandidate ==
  (val.vpc = "done" /\ val.last = "parsed") =>
    /\ Len(val.out.results) = val.n
    /\ \A i \in 1..val.n :
         EntriesAbout(val.resp, i) # {} =>
           \E k \in EntriesAbout(val.resp, i) :
             /\ val.out.results[i].score = val.resp[k].score
             /\ val.out.results[i].tier = TierOf(val.resp[k].tier, val.resp[k].score)

\* C13: when the response does not parse, the call returns no error and
\* one verdict per candidate, each the default (score 50, tier STANDARD,
\* reason "AI parse error"); the scheduler therefore goes on to its score
\* filter, which drops every candidate carrying that verdict (50 <= 70).
C13_ParseFailureDefaults ==
  (val.vpc = "done" /\ val.last = "unparseable") =>
    /\ ~val.out.err
    /\ Len(val.out.results) = val.n
    /\ \A i \in 1..val.n :
         /\ val.out.results[i].score = 50
         /\ val.out.results[i].tier = "STANDARD"
         /\ val.out.results[i].reason = "AI parse error"
         /\ \A c \in Candidates(i) :
              ScoresTooLow(val.out.results[i], MergeVerdict(c, val.out.results[i]))

\* two candidates, a response that is not a JSON array
C13_Witness ==
  /\ val.vpc = "done" /\ val.last = "unparseable" /\ val.n = 2
  /\ Len(val.out.results) = 2

Tiers == {"PREMIUM", "STANDARD", "REJECT"}

\* C14: every verdict the call returns has a tier in {PREMIUM, STANDARD,
\* REJECT}; a verdict converted from an entry whose tier is missing or
\* unknown has the tier its score gives (>= 90 PREMIUM, >= 70 STANDARD,
\* otherwise REJECT).
C14_TierAlwaysValid ==
  (val.vpc = "done" /\ ~val.out.err) =>
    \A i \in DOMAIN val.out.results :
      /\ val.out.results[i].tier \in Tiers
      /\ (val.last = "parsed" /\ i <= Len(val.resp)
          /\ ToUpper(val.resp[i].tier) \notin Tiers) =>
           val.out.results[i].tier =
             (IF val.resp[i].score >= 90 THEN "PREMIUM"
              ELSE IF val.resp[i].score >= 70 THEN "STANDARD" ELSE "REJECT")

\* C15: in a cycle the validator is called once, on the batch the gate
\* left: the call is entered only from the gate step, every candidate of
\* the batch is suppressed neither by the cooldown predicate nor by the
\* active-duplicate predicate on the store of that moment, the call is left
\* only towards the processing loop or the end of the cycle, and the call
\* changes neither the store nor what the notifier was given.
C15_ValidatorCallContract ==
  [][\A t \in Threads :
       /\ (pc[t] # "validate" /\ pc'[t] = "validate") =>
            /\ pc[t] = "cooldown"
            /\ \A k \in DOMAIN loc'[t].validForAI :
                 LET c == loc'[t].validForAI[k]
                 IN  /\ ~CheckCooldown(store, c.symbol, CooldownMinutes, now, storeUp)
                     /\ ~CheckDuplicateActiveSignal(store, c.symbol, c.type,
                                                    c.entry, storeUp)
       /\ (pc[t] = "validate" /\ pc'[t] # "validate") =>
            /\ pc'[t] \in {"process", "done"}
            /\ store' = store /\ sent' = sent]_vars

(***************************************************************************)
(* Properties of the signal lifecycle and the live monitor.                *)
(***************************************************************************)

\* C16: whatever the interleaving of monitor evaluations, persists and
\* resets, no step turns a stored signal that is CLOSED into anything else
\* than CLOSED; nor would the bulk close of the store.
C16_ClosedStaysClosed ==
  [][/\ \A i \in DOMAIN store \cap DOMAIN store' :
          store[i].status = "CLOSED" => store'[i].status = "CLOSED"
     /\ \A i \in DOMAIN store :
          store[i].status = "CLOSED" =>
            CloseAllActiveSignals(store, "MANUAL_RESET")[i] = store[i]]_vars

\* a signal was closed by the monitor, a second one was persisted after it
\* and the monitor has evaluated that one too
C16_Witness ==
  /\ Len(store) = 2
  /\ store[1].status = "CLOSED" /\ store[1].closeReason = "SL_HIT"
  /\ store[2].status = "ACTIVE"
  /\ mon.checks = 2 /\ mon.mpc = "idle"

\* C17: no step removes a stored signal, and a step that changes a stored
\* signal closes it: the signal was ACTIVE, it is CLOSED afterwards with a
\* reason, and only its status, close reason and PnL differ.  (The operator
\* reset is then a bulk close: it leaves every signal in the store.)
C17_OnlyClosedNeverRemoved ==
  [][/\ Len(store') >= Len(store)
     /\ \A i \in DOMAIN store \cap DOMAIN store' :
          store'[i] # store[i] =>
            /\ store[i].status = "ACTIVE"
            /\ store'[i].status = "CLOSED" /\ store'[i].closeReason # ""
            /\ store'[i] = [store[i] EXCEPT !.status = "CLOSED",
                                            !.closeReason = store'[i].closeReason,
                                            !.pnl = store'[i].pnl]]_vars

\* a step of the pass on the document of the cursor at mon.idx
PassEvaluates == pc[1] = "loop" /\ mon'.idx = mon.idx + 1

\* the stored document of the signal the pass is evaluating against a price
\* of the map, while it is still ACTIVE
PassEvaluated ==
  {i \in DOMAIN store :
     /\ store[i].timestamp = mon.snapshot[mon.idx].timestamp
     /\ store[i].status = "ACTIVE"
     /\ store[i].symbol \in DOMAIN loc[1].prices}

\* the decision as the claim words it: "" = stays ACTIVE
StatedVerdict(d, price) ==
  IF d.type = "LONG"
  THEN IF price >= d.tp2 THEN "TP_HIT"
       ELSE IF price <= d.sl THEN "SL_HIT" ELSE ""
  ELSE IF price <= d.tp2 THEN "TP_HIT"
       ELSE IF price >= d.sl THEN "SL_HIT" ELSE ""

\* C18: an evaluation of an ACTIVE signal against a fresh price closes a
\* LONG with TP_HIT if price >= take-profit 2, otherwise with SL_HIT if
\* price <= stop-loss, a SHORT with TP_HIT if price <= take-profit 2,
\* otherwise with SL_HIT if price >= stop-loss, and leaves the signal
\* ACTIVE in every other case.
C18_DecisionAsStated ==
  [][PassEvaluates =>
       \A i \in PassEvaluated :
         LET verdict == StatedVerdict(store[i], loc[1].prices[store[i].symbol])
         IN  IF verdict # ""
             THEN /\ store'[i].status = "CLOSED"
                  /\ store'[i].closeReason = verdict
             ELSE store'[i] = store[i]]_vars

\* C19: a step of the monitor that closes a signal stores with it the
\* realized PnL percent at the price of that evaluation, (price - entry) /
\* entry x 100 for a LONG and the negation for a SHORT, here in thousandths
\* of a percent.
C19_RealizedPnlStored ==
  [][PassEvaluates =>
       \A i \in DOMAIN store :
         (store[i].status = "ACTIVE" /\ store'[i].status = "CLOSED") =>
           store'[i].pnl = RealizedPnl(store[i].type, store[i].entry,
                                       loc[1].prices[store[i].symbol])]_vars


Advisory == {"reversal", "trailing"}

\* C20: over the life of a signal the reversal warning is emitted at most
\* once and the trailing-stop suggestion is emitted at most once: no
\* advisory alert occurs twice among the messages handed to the notifier.
C20_AdvisoryAtMostOnce ==
  \A i, j \in DOMAIN sent :
    (i < j /\ sent[i].kind \in Advisory) => sent[j] # sent[i]

(***************************************************************************)
(* Properties of the price-map pass and of the close.                      *)
(***************************************************************************)

\* the price map without the symbols in drop
Without(prices, drop) == [sy \in DOMAIN prices \ drop |-> prices[sy]]

\* C21: a pass changes only signals that were ACTIVE and whose symbol has a
\* price in the map: in every step of the pass (the query, each document of
\* the cursor, the return) an ACTIVE signal without a price and every CLOSED
\* signal are as before, no signal is added or removed, and the prices of
\* symbols without an ACTIVE signal in the cursor make no difference to what
\* the step writes and notifies.
C21_PassFrame ==
  [][(pc'[1] # pc[1] \/ mon' # mon) =>
       /\ Len(store') = Len(store)
       /\ \A i \in DOMAIN store :
            store'[i] # store[i] =>
              (store[i].status = "ACTIVE" /\ store[i].symbol \in DOMAIN loc[1].prices)
       /\ (pc[1] = "loop" /\ mon.idx <= Len(mon.snapshot)) =>
            LET idle == {sy \in DOMAIN loc[1].prices :
                           \A k \in DOMAIN mon.snapshot : mon.snapshot[k].symbol # sy}
                r == TPSLLoop(store, mon, Without(loc[1].prices, idle), storeUp)
            IN  store' = r.store /\ mon' = r.mon]_vars

\* after a pass with prices for symbols 1 and 3 only: the LONG of symbol 1
\* was stopped out, the ACTIVE signal of symbol 2 is as it was
C21_Witness ==
  /\ pc[1] = "done"
  /\ DOMAIN loc[1].prices = {1, 3}
  /\ Len(store) = 2
  /\ store[1].symbol = 1 /\ store[1].status = "CLOSED"
  /\ store[1].closeReason = "SL_HIT"
  /\ store[2].symbol = 2 /\ store[2].status = "ACTIVE"

\* C22: a close of the monitor updates exactly the signal that was
\* evaluated: the one document an evaluation changes has the symbol, the
\* direction and the creation time of the evaluated signal, and every other
\* document, the other ACTIVE signals of the same symbol included, is as
\* before.
C22_CloseExactlyEvaluated ==
  [][PassEvaluates =>
       LET sig == mon.snapshot[mon.idx]
           changed == {i \in DOMAIN store : store'[i] # store[i]}
       IN  /\ Len(store') = Len(store)
           /\ Cardinality(changed) <= 1
           /\ \A i \in changed :
                /\ store[i].symbol = sig.symbol
                /\ store[i].type = sig.type
                /\ store[i].createdAt = sig.createdAt
                /\ store[i].status = "ACTIVE"
                /\ store'[i].status = "CLOSED"]_vars

(***************************************************************************)
(* Properties of the shutdown.                                             *)
(***************************************************************************)

\* C23: a termination signal that arrives while a cycle is in flight lets
\* the cycle finish before the store is closed and the process exits: the
\* store is not closed under that cycle, an exit with code 0 leaves the
\* cycle finished, and code 1 is the exit of the expired timeout only.
C23_ExitAfterCycle ==
  /\ (shut.hpc = "closed" /\ shut.elapsed < ShutdownTimeout) => shut.pending = {}
  /\ shut.code = 0 => shut.pending = {}
  /\ shut.code = 1 => shut.elapsed >= ShutdownTimeout

(***************************************************************************)
(* Properties of what Wait() hands to the scheduler.                       *)
(***************************************************************************)

\* the symbols among the signals Wait() returned
SignalSymbols == {pool.signals[k].symbol : k \in DOMAIN pool.signals}

\* C24: a symbol whose evaluation returned an error is dropped by the pool:
\* it has no signal and no price in what Wait() returns, the signal and the
\* price of every other symbol are returned, and Wait() does return.
C24_ErrorDropped ==
  /\ [](pool.ppc = "returned" =>
          \A i \in DOMAIN pool.outs :
            /\ pool.outs[i].kind = "err" =>
                 (i \notin SignalSymbols /\ i \notin DOMAIN pool.prices)
            /\ pool.outs[i].kind = "ok" =>
                 /\ pool.outs[i].signal # NoSignal =>
                      \E k \in DOMAIN pool.signals :
                        pool.signals[k] = pool.outs[i].signal
                 /\ pool.outs[i].price > 0 =>
                      (i \in DOMAIN pool.prices
                       /\ pool.prices[i] = pool.outs[i].price))
  /\ (\E i \in DOMAIN pool.outs : pool.outs[i].kind = "err") ~>
       (pool.ppc = "returned" /\ pool.jobs = <<>> /\ pool.added = Len(pool.outs))

\* a single worker met an error on the first symbol and then produced the
\* signal of the second, which Wait() returned
C24_Witness ==
  /\ pool.ppc = "returned"
  /\ Len(pool.wpc) = 1
  /\ Len(pool.outs) >= 2
  /\ pool.outs[1].kind = "err"
  /\ pool.outs[2].kind = "ok" /\ pool.outs[2].signal # NoSignal
  /\ pool.signals = <<pool.outs[2].signal>>
  /\ DOMAIN pool.prices = {2}

\* C25: when Wait() has returned, the price map holds the last close of
\* every symbol whose evaluation yielded a price, with or without a signal,
\* and nothing else, and the signal list holds one entry for each symbol
\* that produced a signal and nothing else.
C25_PricesForAllScanned ==
  pool.ppc = "returned" =>
    /\ \A i \in DOMAIN pool.outs :
         (pool.outs[i].kind = "ok" /\ pool.outs[i].price > 0) =>
           (i \in DOMAIN pool.prices /\ pool.prices[i] = pool.outs[i].price)
    /\ \A sy \in DOMAIN pool.prices :
         sy \in DOMAIN pool.outs /\ pool.outs[sy].kind = "ok"
    /\ \A i \in DOMAIN pool.outs :
         i \in SignalSymbols <=>
           (pool.outs[i].kind = "ok" /\ pool.outs[i].signal # NoSignal)
    /\ \A k \in DOMAIN pool.signals :
         /\ pool.signals[k].symbol \in DOMAIN pool.outs
         /\ pool.signals[k] = pool.outs[pool.signals[k].symbol].signal
         /\ \A m \in DOMAIN pool.signals :
              pool.signals[m].symbol = pool.signals[k].symbol => m = k

\* Wait() returned the price of a symbol that produced no signal beside the
\* signal and the price of one that did
C25_Witness ==
  /\ pool.ppc = "returned"
  /\ \E i, j \in DOMAIN pool.outs :
       /\ pool.outs[i].kind = "ok" /\ pool.outs[i].signal = NoSignal
       /\ i \in DOMAIN pool.prices /\ i \notin SignalSymbols
       /\ pool.outs[j].kind = "ok" /\ pool.outs[j].signal # NoSignal
       /\ j \in DOMAIN pool.prices /\ j \in SignalSymbols

(***************************************************************************)
(* Properties of the signal engine.                                        *)
(***************************************************************************)

\* an evaluation has returned
EngineReturned == eng.epc = "out"

\* C26: a symbol whose 1h and 15m ADX average below 20 (regime CHOPPY)
\* never produces a signal, whatever its other indicators and its score.
C26_ChoppyNeverSignals ==
  (EngineReturned /\ eng.in.adx1h + eng.in.adx15m < 400) =>
    eng.out = NoEngineSignal

\* an evaluation without a signal for a choppy symbol whose 1h ADX is
\* strong, whose price is above the EMA and whose LONG score is 80 or more
C26_Witness ==
  /\ EngineReturned
  /\ eng.in.adx1h + eng.in.adx15m < 400
  /\ eng.in.adx1h > 250
  /\ eng.in.price > eng.in.ema50 /\ eng.in.rsi4h < 70
  /\ calculateConfluenceScore("LONG", eng.in, PivotsOf(eng.in), FibsOf(eng.in)) >= 80
  /\ eng.out = NoEngineSignal

\* the evaluation returned a signal
Emitted == EngineReturned /\ eng.out # NoEngineSignal

\* TP2 before the pivot adjustment, from the band of the evaluation
NaiveTP2(in, type) ==
  IF type = "LONG" THEN Up(in.price, Band(in.atrPercent).tp2)
  ELSE Down(in.price, Band(in.atrPercent).tp2)

\* C27: every signal the engine emits has stop_loss < entry < take_profit_1
\* <= take_profit_2 when LONG and take_profit_2 <= take_profit_1 < entry <
\* stop_loss when SHORT, in every volatility band, adjusted TP2 or not.
C27_LevelsOrdered ==
  Emitted =>
    /\ eng.out.type \in {"LONG", "SHORT"}
    /\ eng.out.type = "LONG" =>
         (eng.out.sl < eng.out.entry /\ eng.out.entry < eng.out.tp1
          /\ eng.out.tp1 <= eng.out.tp2)
    /\ eng.out.type = "SHORT" =>
         (eng.out.tp2 <= eng.out.tp1 /\ eng.out.tp1 < eng.out.entry
          /\ eng.out.entry < eng.out.sl)

\* a SHORT of the wide band whose TP2 was moved from its naive value
C27_Witness ==
  /\ Emitted
  /\ eng.out.type = "SHORT"
  /\ eng.in.atrPercent > 3000
  /\ eng.out.tp2 # NaiveTP2(eng.in, "SHORT")

\* C28: every admitted signal has a risk:reward ratio on TP2, |TP2 - entry|
\* over |entry - stop_loss|, of 2.0 or more, and a candidate whose ratio is
\* below 2.0, one with entry = stop_loss included, leaves the risk gate
\* without a signal.
C28_RiskRewardGate ==
  /\ (eng.epc \in {"out", "gated"} /\ eng.out # NoEngineSignal) =>
       /\ eng.out.entry # eng.out.sl
       /\ eng.out.rr = (Abs(eng.out.tp2 - eng.out.entry) * 1000)
                         \div Abs(eng.out.entry - eng.out.sl)
       /\ eng.out.rr >= 2000
  /\ (/\ eng.epc = "gated"
      /\ \/ eng.cand.entry = eng.cand.sl
         \/ Abs(eng.cand.tp2 - eng.cand.entry)
              < 2 * Abs(eng.cand.entry - eng.cand.sl)) =>
       eng.out = NoEngineSignal

\* a candidate whose stop is its entry left the risk gate without a signal
C28_Witness ==
  /\ eng.epc = "gated"
  /\ eng.cand.entry = eng.cand.sl
  /\ eng.cand.tp2 # eng.cand.entry
  /\ eng.out = NoEngineSignal

\* the evaluation was of the Clean LONG scenario: trending up, 1h ADX 28,
\* 15m ADX 27, 15m RSI 38, pivot distance 0.9%, volume ratio 1.7, MACD
\* histogram positive, order flow positive, bullish order block and no fair
\* value gap, POC distance 1.2%, BTC up
CleanLong ==
  /\ EngineReturned
  /\ eng.in.price > eng.in.ema50 /\ eng.in.rsi4h < 70
  /\ eng.in.adx1h = 280 /\ eng.in.adx15m = 270
  /\ eng.in.rsi15m = 38
  /\ getPivotDistance(eng.in.price, PivotsOf(eng.in)) = 900
  /\ VolRatio(eng.in) = 170
  /\ eng.in.histogram > 0 /\ eng.in.orderFlow > 0
  /\ eng.in.obType = "BULLISH" /\ eng.in.fvgType = ""
  /\ eng.in.pocDist = 1200
  /\ eng.in.btcTrend = "UP"

\* C29 as stated: the Clean LONG scenario scores 20+25+15+10+5+5+5+0+5 = 90,
\* its tier is PREMIUM and the signal is admitted.
C29_CleanLongAsStated ==
  CleanLong =>
    (eng.out # NoEngineSignal /\ eng.out.score = 90 /\ eng.out.tier = "PREMIUM")

\* C29, amended: the Clean LONG scenario scores 20+25+15+10+5+5+5+5+5 = 95,
\* the POC distance of 1.2% being within the 2% that earn the 5 points of
\* the volume profile; its tier is PREMIUM and the signal is admitted.
C29_CleanLongScores95 ==
  CleanLong =>
    /\ eng.out # NoEngineSignal
    /\ eng.out.score = 95
    /\ eng.out.tier = "PREMIUM"
    /\ eng.out.type = "LONG"
    /\ eng.out.regime = "TRENDING_UP"

\* the scenario was evaluated and its signal has a risk:reward of 3.0
C29_Witness ==
  /\ CleanLong
  /\ eng.out # NoEngineSignal
  /\ eng.out.rr = 3000

\* the pivot levels of the TP2 side that lie beyond the price: resistances
\* above it for a LONG, supports below it for a SHORT
SideLevels(in, type) ==
  LET pv == PivotsOf(in)
  IN  IF type = "LONG"
      THEN {l \in {pv.Pivot, pv.R1, pv.R2, pv.R3} : l > in.price}
      ELSE {l \in {pv.Pivot, pv.S1, pv.S2, pv.S3} : l < in.price /\ l > 0}

\* the next of them, seen from the price
NextPivot(in, type) ==
  LET ls == SideLevels(in, type)
  IN  IF type = "LONG" THEN CHOOSE l \in ls : \A m \in ls : l <= m
      ELSE CHOOSE l \in ls : \A m \in ls : l >= m

\* C30: TP2 leaves its naive value only for the next pivot resistance (LONG)
\* or support (SHORT), and only when that level lies between the naive TP2
\* and 15% from the entry; in every other case, without a pivot level on
\* that side included, TP2 is the naive value.
C30_TP2OnlyToPivot ==
  Emitted =>
    LET naive == NaiveTP2(eng.in, eng.out.type)
        moves == /\ SideLevels(eng.in, eng.out.type) # {}
                 /\ IF eng.out.type = "LONG"
                    THEN /\ NextPivot(eng.in, "LONG") > naive
                         /\ NextPivot(eng.in, "LONG") < (eng.in.price * 115) \div 100
                    ELSE /\ NextPivot(eng.in, "SHORT") < naive
                         /\ NextPivot(eng.in, "SHORT") > (eng.in.price * 85) \div 100
    IN  eng.out.tp2 = IF moves THEN NextPivot(eng.in, eng.out.type) ELSE naive

\* C31: when the average volume of the window is 0 the volume ratio is
\* taken for 0: the evaluation ends as it does for a window whose last
\* volume is 0 and whose average is not, with the low-volume penalty in the
\* score and no volume bonus.
C31_ZeroAverageVolume ==
  (EngineReturned /\ eng.in.vol[2] = 0) =>
    eng.out = EvaluateSymbol([eng.in EXCEPT !.vol = <<0, 100>>])

\* C32: when the daily horizon delivers fewer candles than its pivot
\* points need (no previous day), the evaluation returns no signal.
C32_ShortHorizonNoSignal ==
  (EngineReturned /\ eng.in.day = <<>>) => eng.out = NoEngineSignal

\* C33: an evaluation that emits a signal could have emitted no other on
\* the same candles: the name of the nearest pivot level in the signal is
\* the only one the evaluation can return for its input.
C33_SameInputsSameSignal ==
  Emitted =>
    \A name \in NearestPivotNames(eng.in.price, PivotsOf(eng.in)) :
      eng.pivotName = name

\* the stages of poll() that follow the call of the monitor, and its end
AfterMonitor == {"cooldown", "validate", "process", "send", "done"}

\* C34: in a cycle the monitor is called exactly once when the scan
\* collected prices and not otherwise: not before Wait() has returned, once
\* before the cooldown filter, the validation and the handling of the
\* signals start, and once in a cycle that ended, also one without a
\* candidate or with a failed validation.
C34_MonitorOnceAfterWait ==
  \A t \in Threads :
    /\ pc[t] \in {"idle", "ready", "skipped", "watchlist", "scan", "monitor"}
         => loc[t].monCalls = 0
    /\ pc[t] \in AfterMonitor
         => loc[t].monCalls = IF DOMAIN loc[t].prices # {} THEN 1 ELSE 0

\* a cycle that collected a price and no candidate, called the monitor and
\* ended
C34_Witness ==
  \E t \in Threads :
    /\ pc[t] = "done"
    /\ DOMAIN loc[t].prices # {}
    /\ loc[t].monCalls = 1
    /\ store = <<>>
    /\ sent = <<>>

\* the signal of the iteration the loop is at passes the score filter
Accepted(l) ==
  /\ l.idx <= Len(l.aiResults)
  /\ ~ScoresTooLow(l.aiResults[l.idx],
                   MergeVerdict(l.validForAI[l.idx], l.aiResults[l.idx]))

\* C35: the loop handles the one signal it is at: it saves an accepted
\* signal and nothing else, and goes on to notify it only when the save
\* succeeded; a notification is sent only for the signal that was just
\* saved and is in the store; and whether the signal was passed over, its
\* save failed or its notification failed, the loop goes on to the next
\* signal when there is one.
C35_SaveThenNotifyEach ==
  [][LET l == loc[1]
         merged == MergeVerdict(l.validForAI[l.idx], l.aiResults[l.idx])
         saved == [merged EXCEPT !.createdAt = now]
     IN  /\ (pc[1] = "process" /\ (pc' # pc \/ loc' # loc)) =>
              /\ sent' = sent
              /\ IF Accepted(l) /\ storeUp
                 THEN store' = Append(store, saved) /\ pc'[1] = "send"
                 ELSE /\ store' = store
                      /\ l.idx < Len(l.validForAI) =>
                           (pc'[1] = "process" /\ loc'[1].idx = l.idx + 1)
         /\ sent' # sent =>
              /\ pc[1] = "send"
              /\ Accepted(l)
              /\ \E i \in DOMAIN store : store[i] = saved
              /\ sent' = Append(sent, SignalNotice(merged))
         /\ (pc[1] = "send" /\ pc' # pc) =>
              /\ store' = store
              /\ l.idx < Len(l.validForAI) =>
                   (pc'[1] = "process" /\ loc'[1].idx = l.idx + 1)]_vars

\* the save of the first of two accepted signals failed and the loop is at
\* the second
C35_Witness ==
  /\ pc[1] = "process"
  /\ loc[1].idx = 2
  /\ Len(loc[1].aiResults) = 2
  /\ ~ScoresTooLow(loc[1].aiResults[1],
                   MergeVerdict(loc[1].validForAI[1], loc[1].aiResults[1]))
  /\ Accepted(loc[1])
  /\ store = <<>>

\* C36: a second call of Wait() on the same pool does not fault.
C36_SecondWaitNoFault == pool.ppc # "panic"

\* the favourable move of the checked signal, in thousandths of a percent
Favourable == RealizedPnl(store[1].type, store[1].entry, mon.price)

\* C37: a check sends a trailing-stop suggestion exactly when the
\* favourable move is in [3, 6) percent, and the suggestion recommends the
\* entry for a move below 4 percent and, from 4 percent on, entry x 1.02 for
\* a LONG and entry x 0.98 for a SHORT.
C37_TrailingStopBothWays ==
  (mon.price # 0 /\ mon.mpc = "idle") =>
    /\ (\E i \in DOMAIN sent : sent[i].kind = "trailing")
         <=> (Favourable >= 3000 /\ Favourable < 6000)
    /\ \A i \in DOMAIN sent :
         sent[i].kind = "trailing" =>
           sent[i].newStopLoss =
             IF Favourable < 4000 THEN store[1].entry
             ELSE IF store[1].type = "LONG" THEN (store[1].entry * 102) \div 100
             ELSE (store[1].entry * 98) \div 100

\* the cycle can take its next step: in the scan the producer or a worker
\* of its pool can, or Wait() has returned; every later stage runs to its
\* return
CycleCanStep(t) ==
  pc[t] = "scan" =>
    \/ pool.ppc = "returned"
    \/ PoolProducerCanStep
    \/ \E w \in Workers : PoolWorkerCanStep(w)

\* C38: while the in-cycle flag is set, the cycle that set it is under way
\* and can take its next step towards the return that clears the flag: the
\* scheduler is never left with the flag set and a cycle that cannot end,
\* the state in which every tick is skipped.
C38_CycleAlwaysEnds ==
  isPolling => (InCycle(1) /\ CycleCanStep(1))

\* C39: a take-profit or stop-loss alert is sent only by a check whose
\* update of the store succeeded.
C39_CloseAlertOnlyAfterUpdate ==
  [][(/\ Len(sent') = Len(sent) + 1
      /\ sent'[Len(sent')].kind \in {"tp", "sl"}) => mon.updated]_vars

\* the signal of an alert is in the collection st as the monitor closes it
ClosedIn(st, alert) ==
  \E i \in DOMAIN st :
    /\ st[i].symbol = alert.symbol
    /\ st[i].timestamp = alert.timestamp
    /\ st[i].status = "CLOSED"
    /\ st[i].closeReason \in {"TP_HIT", "SL_HIT"}

\* C40: an evaluation that sends a reversal warning or a trailing-stop
\* suggestion for a signal neither closes that signal nor follows an
\* evaluation that closed it: when the message is sent the signal is not in
\* the store as CLOSED by the monitor.
C40_NoAdvisoryOnceClosed ==
  [][\A k \in DOMAIN sent' :
       (k > Len(sent) /\ sent'[k].kind \in {"reversal", "trailing"}) =>
         ~ClosedIn(store', sent'[k])]_vars

\* a first evaluation closed a signal with its alert, and a later one sent
\* an advisory for another signal
C40_Witness ==
  /\ Len(sent) = 2
  /\ sent[1].kind \in {"tp", "sl"}
  /\ ClosedIn(store, sent[1])
  /\ sent[2].kind \in {"reversal", "trailing"}
  /\ ~ClosedIn(store, sent[2])

====
